---- MODULE Spec2Model ----
(***************************************************************************)
(* Model of pysnds: the breast-cancer classification engine of SNDS_BC     *)
(* (src/pysnds/snds_bc.py) over the presence / first-date engine of        *)
(* SNDS_Treatment (src/pysnds/snds_treatment.py) and the record-store      *)
(* queries of SNDS_Query (src/pysnds/snds_query.py).                       *)
(*                                                                         *)
(* A DataFrame is a sequence of records (its rows, in row order); the      *)
(* result of a SQL query is a set of rows.  A date is a day ordinal, and   *)
(* the calendar offsets (one year, one month) are computed on the civil    *)
(* date, as pandas.DateOffset and dateutil.relativedelta compute them.     *)
(***************************************************************************)
EXTENDS Integers, Sequences, FiniteSets, TLC

VARIABLES
    cohort,              \* df_ID_PATIENT: sequence of patient keys
    store,               \* the record store: rows of the joined SNDS tables
    dict_treatment,      \* the code-set argument of the running call
    print_opt,           \* the print_option argument of Had_Treatment
    method,              \* the method called, in a run with unchecked arguments
    columns,             \* set(df_ID_PATIENT.columns)
    years_arg,           \* the Python type of the `years` argument
    dict_type,           \* the Python type of the code-set argument
    queried,             \* such a run has sent a query to the record store
    pc,                  \* position of the running call
    df_first_treatment,  \* Date_Diag: first any-treatment date per key
    df_dates_diag,       \* Date_Diag: the table being resolved / returned
    df_Treatment,        \* Had_Treatment: the returned table
    surgery_date,        \* treatment_setting: first surgery date per key
    treatment_date,      \* treatment_setting: first treatment date per key
    df_treatment_setting,\* treatment_setting: the returned table
    df_chemotherapy,     \* Chemotherapy_Regimen: Had_Treatment of CT
    df_CT,               \* Chemotherapy_Regimen: distinct (key, DATE) rows
    df_res,              \* Chemotherapy_Regimen: the table being labelled
    df_endoctrine_therapy, \* EndoctrineTherapy_Treatment: Had_Treatment of ET
    df_ET,               \* EndoctrineTherapy_Treatment: dated dispensations
    patient_group,       \* the group a per-patient rule is applied to
    Regimen,             \* the value returned for one group by the applied rule
    Pathway,             \* therapeutic_pathway: the value of one group
    BC_SubType,          \* BC_subtype: the value of one group
    df_char,             \* BC_POP_Stat: the characterization table `df`
    calls                \* the calls made on one SNDS_BC object, with their results

args == <<cohort, store, dict_treatment, print_opt, method, columns, years_arg, dict_type>>
diagVars == <<df_first_treatment, df_dates_diag>>
settingVars == <<df_Treatment, surgery_date, treatment_date, df_treatment_setting>>
regimenVars == <<df_chemotherapy, df_CT, df_res>>
etVars == <<df_endoctrine_therapy, df_ET>>
ruleVars == <<patient_group, Regimen>>
charVars == <<Pathway, BC_SubType>>
statVars == <<df_char>>
twiceVars == <<calls>>

vars == <<args, pc, queried, diagVars, settingVars, regimenVars, etVars, ruleVars, charVars,
          statVars, twiceVars>>

----------------------------------------------------------------------------
(* Bounds of the model *)

MaxCohort == 2       \* patients in the cohort
MaxDiagRows == 3     \* record-store rows in a Date_Diag run
MaxSettingRows == 3  \* record-store rows in a treatment_setting run
MaxCTRows == 4       \* record-store rows in a Chemotherapy_Regimen run

----------------------------------------------------------------------------
(* Calendar: day ordinals and civil dates *)

Years == 2017..2022

IsLeap(y) == (y % 4 = 0) /\ ((y % 100 # 0) \/ (y % 400 = 0))

DaysInYear(y) == IF IsLeap(y) THEN 366 ELSE 365

DaysInMonth(y, m) ==
    IF m \in {4, 6, 9, 11} THEN 30
    ELSE IF m = 2 THEN (IF IsLeap(y) THEN 29 ELSE 28)
    ELSE 31

RECURSIVE DaysBeforeYear(_)
DaysBeforeYear(y) ==
    IF y <= 2017 THEN 0 ELSE DaysInYear(y - 1) + DaysBeforeYear(y - 1)

RECURSIVE DaysBeforeMonth(_, _)
DaysBeforeMonth(y, m) ==
    IF m <= 1 THEN 0 ELSE DaysInMonth(y, m - 1) + DaysBeforeMonth(y, m - 1)

\* datetime(y, m, d) as a day ordinal (1 = 2017-01-01)
Ordinal(y, m, d) == DaysBeforeYear(y) + DaysBeforeMonth(y, m) + d

YearOf(n) ==
    CHOOSE y \in Years : DaysBeforeYear(y) < n /\ n <= DaysBeforeYear(y + 1)

MonthOf(n) ==
    LET y == YearOf(n)
        r == n - DaysBeforeYear(y)
    IN  CHOOSE m \in 1..12 :
            DaysBeforeMonth(y, m) < r /\ r <= DaysBeforeMonth(y, m) + DaysInMonth(y, m)

DayOf(n) ==
    LET y == YearOf(n) IN n - DaysBeforeYear(y) - DaysBeforeMonth(y, MonthOf(n))

Min2(a, b) == IF a <= b THEN a ELSE b

\* date - pd.DateOffset(years=1): same month and day one year earlier, the
\* day clamped to the length of that month
MinusOneYear(n) ==
    LET y == YearOf(n) - 1
        m == MonthOf(n)
    IN  Ordinal(y, m, Min2(DayOf(n), DaysInMonth(y, m)))

\* date - relativedelta(months=1): same day one month earlier, clamped
MinusOneMonth(n) ==
    LET y0 == YearOf(n)
        m0 == MonthOf(n)
        y == IF m0 = 1 THEN y0 - 1 ELSE y0
        m == IF m0 = 1 THEN 12 ELSE m0 - 1
    IN  Ordinal(y, m, Min2(DayOf(n), DaysInMonth(y, m)))

\* np.nan / NaT in a date column
NaT == 0

SetMin(S) == CHOOSE x \in S : \A y \in S : x <= y
SetMax(S) == CHOOSE x \in S : \A y \in S : x >= y

\* the `years` argument: [datetime(2019, 1, 1), datetime(2020, 12, 31)]
years == <<Ordinal(2019, 1, 1), Ordinal(2020, 12, 31)>>

----------------------------------------------------------------------------
(* Patient keys (BEN_IDT_ANO, BEN_NIR_PSA, BEN_RNG_GEM) *)

Key(i, p, r) == [BEN_IDT_ANO |-> i, BEN_NIR_PSA |-> p, BEN_RNG_GEM |-> r]

\* The beneficiaries of IR_BEN_R in the model: one person under rank 1 and
\* rank 2 of the same pseudonymised NIR, and an unrelated person.
KeyUniverse == {Key(1, 1, 1), Key(1, 1, 2), Key(2, 2, 1)}

KeyLT(a, b) ==
    \/ a.BEN_IDT_ANO < b.BEN_IDT_ANO
    \/ /\ a.BEN_IDT_ANO = b.BEN_IDT_ANO
       /\ \/ a.BEN_NIR_PSA < b.BEN_NIR_PSA
          \/ /\ a.BEN_NIR_PSA = b.BEN_NIR_PSA
             /\ a.BEN_RNG_GEM < b.BEN_RNG_GEM

RECURSIVE SortedKeys(_)
\* the keys of a set in ascending order (the order of a groupby result)
SortedKeys(S) ==
    IF S = {} THEN <<>>
    ELSE LET k == CHOOSE x \in S : \A y \in S \ {x} : KeyLT(x, y)
         IN  <<k>> \o SortedKeys(S \ {k})

Range(s) == {s[i] : i \in 1..Len(s)}

RECURSIVE KSubsets(_, _)
\* the subsets of S with at most k elements
KSubsets(S, k) ==
    IF k = 0 THEN {{}}
    ELSE LET T == KSubsets(S, k - 1)
         IN  T \cup {t \cup {x} : t \in T, x \in S}

\* the cohorts of the model: unique keys, in key order
Cohorts == {SortedKeys(S) : S \in KSubsets(KeyUniverse, MaxCohort) \ {{}}}

----------------------------------------------------------------------------
(* Record store: rows of the event tables joined to IR_BEN_R *)

Row(k, s, t, c, d) == [key |-> k, src |-> s, type |-> t, code |-> c, date |-> d]

\* The referential of beneficiaries
IR_BEN_R == KeyUniverse

\* The join of the event tables to IR_BEN_R: a DCIR event carries
\* (BEN_NIR_PSA, BEN_RNG_GEM) and joins its own beneficiary; a PMSI stay
\* carries NIR_ANO_17 only and joins every beneficiary with that BEN_NIR_PSA.
JoinBen(events) ==
    UNION {IF e.src = "PMSI"
           THEN {[e EXCEPT !.key = k] :
                    k \in {x \in IR_BEN_R : x.BEN_NIR_PSA = e.key.BEN_NIR_PSA}}
           ELSE {e} : e \in events}

\* WHERE clause shared by the loc_* queries: the code list is applied only
\* when it is non-empty, the patient filter only when the cohort is neither
\* None nor empty, and it tests BEN_IDT_ANO and BEN_NIR_PSA separately.
Where(r, codes, patients) ==
    /\ (codes # {}) => r.code \in codes
    /\ (patients # {}) =>
          /\ r.key.BEN_IDT_ANO \in {k.BEN_IDT_ANO : k \in patients}
          /\ r.key.BEN_NIR_PSA \in {k.BEN_NIR_PSA : k \in patients}
    /\ years[1] <= r.date /\ r.date <= years[2]

loc_ccam_dcir(db, patients, list_CCAM) ==
    {r \in db : r.src = "DCIR" /\ r.type = "CCAM" /\ Where(r, list_CCAM, patients)}

loc_ccam_pmsi(db, patients, list_CCAM) ==
    {r \in db : r.src = "PMSI" /\ r.type = "CCAM" /\ Where(r, list_CCAM, patients)}

loc_icd10_pmsi(db, patients, list_ICD10) ==
    {r \in db : r.src = "PMSI" /\ r.type = "ICD10" /\ Where(r, list_ICD10, patients)}

loc_ucd_pmsi(db, patients, list_UCD) ==
    {r \in db : r.src = "PMSI" /\ r.type = "UCD" /\ Where(r, list_UCD, patients)}

loc_ucd_dcir(db, patients, list_UCD) ==
    {r \in db : r.src = "DCIR" /\ r.type = "UCD" /\ Where(r, list_UCD, patients)}

loc_cip_dcir(db, patients, list_CIP13) ==
    {r \in db : r.src = "DCIR" /\ r.type = "CIP13" /\ Where(r, list_CIP13, patients)}

\* The referential of drugs: the UCD and CIP13 identifiers of an ATC class
IR_PHA_R == {[PHA_ATC_CLA |-> "ATC_X", PHA_CIP_C13 |-> "CIP_X", PHA_CIP_UCD |-> "UCD_X"]}

\* loc_atc_pmsi: the UCD identifiers of the ATC classes, looked up in the PMSI
loc_atc_pmsi(db, patients, list_ATC) ==
    loc_ucd_pmsi(db, patients,
                 {p.PHA_CIP_UCD : p \in {x \in IR_PHA_R : x.PHA_ATC_CLA \in list_ATC}})

\* loc_atc_dcir: their UCD and CIP13 identifiers, looked up in the DCIR
loc_atc_dcir(db, patients, list_ATC) ==
    LET df_atc_cip_ucd == {x \in IR_PHA_R : x.PHA_ATC_CLA \in list_ATC}
    IN  loc_ucd_dcir(db, patients, {p.PHA_CIP_UCD : p \in df_atc_cip_ucd})
        \cup loc_cip_dcir(db, patients, {p.PHA_CIP_C13 : p \in df_atc_cip_ucd})

----------------------------------------------------------------------------
(* Code vocabulary (BC_medical_codes.json) *)

\* A code set is the sequence of the (code type, code list) items of the dict,
\* in the dict's iteration order.
CodeSet(t, c) == <<[type |-> t, codes |-> c]>>

All_BC_Codes == CodeSet("CCAM", {"SURGERY", "CHEMO"})
Surgery == CodeSet("CCAM", {"SURGERY"})
CT == CodeSet("CCAM", {"CHEMO"})
Breast_core_biopsy == {"BIOPSY"}
Fine_needle_aspiration_cytology == {"CYTOLOGY"}
Breast_Imaging_Procedures == {"IMAGING"}

\* Endocrine therapy: the CIP13 identifiers of each drug class, and the code
\* set of every endocrine drug (the three classes and a drug of none of them)
Tamoxifen == {"TAM1", "TAM2"}
Aromatase_Inhibitor == {"AI1"}
GnRH_agonists == {"GNRH"}
ET_All ==
    CodeSet("CIP13", Tamoxifen \cup Aromatase_Inhibitor \cup GnRH_agonists \cup {"OTHER_ET"})

\* The other code sets BC_POP_Stat looks up
Diag_NodalStatus == CodeSet("ICD10", {"C773"})
Mastectomy == CodeSet("CCAM", {"SURGERY"})
Partial_Mastectomy == CodeSet("CCAM", {"PARTIAL"})
RT == CodeSet("CCAM", {"RADIO"})
Pertuzumab == CodeSet("UCD", {"PERTUZUMAB"})

----------------------------------------------------------------------------
(* SNDS_Treatment: treatment_dates, first_date_treatment, Had_Treatment *)

\* the events looked up for one item of the code set
Lookup(db, item, patients) ==
    CASE item.type = "CCAM" ->
            loc_ccam_dcir(db, patients, item.codes) \cup loc_ccam_pmsi(db, patients, item.codes)
      [] item.type = "ICD10" -> loc_icd10_pmsi(db, patients, item.codes)
      [] item.type = "UCD" ->
            loc_ucd_pmsi(db, patients, item.codes) \cup loc_ucd_dcir(db, patients, item.codes)
      [] item.type = "CIP13" -> loc_cip_dcir(db, patients, item.codes)
      [] item.type = "ATC" ->
            loc_atc_dcir(db, patients, item.codes) \cup loc_atc_pmsi(db, patients, item.codes)
      [] OTHER -> {}

\* the code types treatment_dates is modelled for (its ATC branch is not)
KnownType(t) == t \in {"CCAM", "ICD10", "UCD", "CIP13"}

RECURSIVE td_loop(_, _, _, _, _)
\* the `for key in dict_code` loop: df_date = pd.concat([d for d in
\* [df_date, df_key] if not d.empty]) raises ValueError (no objects to
\* concatenate) when both frames are empty.
td_loop(db, dict_code, patients, i, df_date) ==
    IF i > Len(dict_code) THEN [ok |-> TRUE, rows |-> df_date]
    ELSE IF ~KnownType(dict_code[i].type)
         THEN td_loop(db, dict_code, patients, i + 1, df_date)
         ELSE LET df_key == Lookup(db, dict_code[i], patients)
              IN  IF df_date = {} /\ df_key = {}
                  THEN [ok |-> FALSE, rows |-> {}]
                  ELSE td_loop(db, dict_code, patients, i + 1, df_date \cup df_key)

treatment_dates(db, dict_code, patients) == td_loop(db, dict_code, patients, 1, {})

\* groupby(keys)[col].min().reset_index(): one row per key, in key order
GroupMin(rows) ==
    LET ks == SortedKeys({r.key : r \in rows})
    IN  [i \in 1..Len(ks) |->
            [key |-> ks[i], DATE |-> SetMin({r.date : r \in {x \in rows : x.key = ks[i]}})]]

\* first_date_treatment: the groupby needs the key columns, which the empty
\* df_date of treatment_dates does not have (KeyError).
first_date_treatment(db, dict_code, patients) ==
    LET df_date == treatment_dates(db, dict_code, patients)
    IN  IF ~df_date.ok \/ df_date.rows = {}
        THEN [ok |-> FALSE, df |-> <<>>]
        ELSE [ok |-> TRUE, df |-> GroupMin(df_date.rows)]

\* the key columns of the events of every item of the code set,
\* de-duplicated
unique_identifier(db, dict_code, patients) ==
    UNION {{r.key : r \in Lookup(db, dict_code[i], patients)} : i \in 1..Len(dict_code)}

\* Had_Treatment with a cohort: df_ID_PATIENT left-merged with the keys
\* found, Response 1 where a key matched and 0 elsewhere.  With print_option
\* the count of responders is read as value_counts()[1], which raises
\* KeyError when nobody responds.
Had_Treatment(db, dict_code, df_ID_PATIENT, print_option) ==
    LET found == unique_identifier(db, dict_code, Range(df_ID_PATIENT))
        df == [i \in 1..Len(df_ID_PATIENT) |->
                  [key |-> df_ID_PATIENT[i],
                   Response |-> IF df_ID_PATIENT[i] \in found THEN 1 ELSE 0]]
    IN  IF print_option /\ \A i \in 1..Len(df) : df[i].Response = 0
        THEN [ok |-> FALSE, df |-> <<>>]
        ELSE [ok |-> TRUE, df |-> df]

----------------------------------------------------------------------------
(* pandas helpers *)

RECURSIVE MergeLeft(_, _, _)
\* L.merge(R, on=keys, how="left"): every row of L, once per matching row of
\* R, or once with the columns of R missing (fill) when no row of R matches
MergeLeft(L, R, fill) ==
    IF L = <<>> THEN <<>>
    ELSE LET l == Head(L)
             m == SelectSeq(R, LAMBDA r : r.key = l.key)
             rows == IF m = <<>> THEN <<l @@ fill>>
                     ELSE [i \in 1..Len(m) |-> l @@ m[i]]
         IN  rows \o MergeLeft(Tail(L), R, fill)

\* a.combine_first(b): a where a is not null, else b
combine_first(a, b) == IF a # NaT THEN a ELSE b

----------------------------------------------------------------------------
(* SNDS_BC.Date_Diag *)

\* df_dates_diag[df_dates_diag["Date_Diag"].isna()][keys]
Unresolved(df) ==
    LET na == SelectSeq(df, LAMBDA r : r.Date_Diag = NaT)
    IN  [i \in 1..Len(na) |-> na[i].key]

\* loc_ccam_dcir and loc_ccam_pmsi of one procedure, concatenated, reduced
\* to (key, EXE_SOI_DTD) and de-duplicated
ccam_events(db, subset, list_CCAM) ==
    {[key |-> r.key, date |-> r.date] :
        r \in loc_ccam_dcir(db, Range(subset), list_CCAM)
              \cup loc_ccam_pmsi(db, Range(subset), list_CCAM)}

\* df_ccam.merge(df_first_treatment, on=keys): inner join
merge_first_treatment(df_ccam, first) ==
    UNION {{[key |-> e.key, date |-> e.date, DATE |-> first[i].DATE] :
                i \in {j \in 1..Len(first) : first[j].key = e.key}} : e \in df_ccam}

\* the window closed on the side of the first treatment date
window_result_closed(df_ccam, first) ==
    GroupMin({m \in merge_first_treatment(df_ccam, first) :
                m.date > MinusOneYear(m.DATE) /\ m.date <= m.DATE})

\* the biopsy and cytology window: DATE - 1 year < EXE_SOI_DTD < DATE,
\* then the earliest date per key
window_result(df_ccam, first) ==
    GroupMin({m \in merge_first_treatment(df_ccam, first) :
                m.date > MinusOneYear(m.DATE) /\ m.date < m.DATE})

\* df_dates_diag.merge(df_result, how="left"), Date_Diag =
\* DATE.combine_first(Date_Diag), drop DATE
resolve(df, df_result) ==
    LET df_merged == MergeLeft(df, df_result, [DATE |-> NaT])
    IN  [i \in 1..Len(df_merged) |->
            [key |-> df_merged[i].key,
             Date_Diag |-> combine_first(df_merged[i].DATE, df_merged[i].Date_Diag)]]

\* Init: one row per cohort row, Date_Diag = NaN
init_dates_diag(df_ID_PATIENT) ==
    [i \in 1..Len(df_ID_PATIENT) |-> [key |-> df_ID_PATIENT[i], Date_Diag |-> NaT]]

biopsy_stage(db, df, first) ==
    resolve(df, window_result(ccam_events(db, Unresolved(df), Breast_core_biopsy), first))

cytology_stage(db, df, first) ==
    LET df_ccam_cytology == ccam_events(db, Unresolved(df), Fine_needle_aspiration_cytology)
    IN  IF Unresolved(df) # <<>> /\ df_ccam_cytology # {}
        THEN resolve(df, window_result(df_ccam_cytology, first))
        ELSE df

RECURSIVE imagery_walk(_, _)
\* the loop of select_imagery_date_diag over the remaining dates, most
\* recent first
imagery_walk(current, rest) ==
    IF rest = {} THEN current
    ELSE LET d == SetMax(rest)
         IN  IF d > MinusOneMonth(current)
             THEN imagery_walk(d, rest \ {d})
             ELSE current

select_imagery_date_diag(dates) ==
    LET first == SetMax(dates) IN imagery_walk(first, dates \ {first})

\* the imaging events strictly before the first treatment date
filtered_imagery(db, df, first) ==
    {m \in merge_first_treatment(
               ccam_events(db, Unresolved(df), Breast_Imaging_Procedures), first) :
        m.date < m.DATE}

imagery_result(df_filtered_imagery) ==
    LET ks == SortedKeys({m.key : m \in df_filtered_imagery})
    IN  [i \in 1..Len(ks) |->
            [key |-> ks[i],
             DATE |-> select_imagery_date_diag(
                          {m.date : m \in {x \in df_filtered_imagery : x.key = ks[i]}})]]

\* groupby(keys).apply(f) over an empty frame gives a DataFrame, whose
\* reset_index has no `name` argument: the call raises TypeError.
imagery_raises(db, df, first) ==
    /\ Unresolved(df) # <<>>
    /\ ccam_events(db, Unresolved(df), Breast_Imaging_Procedures) # {}
    /\ filtered_imagery(db, df, first) = {}

imagery_stage(db, df, first) ==
    IF /\ Unresolved(df) # <<>>
       /\ ccam_events(db, Unresolved(df), Breast_Imaging_Procedures) # {}
    THEN resolve(df, imagery_result(filtered_imagery(db, df, first)))
    ELSE df

\* a fallback that writes nothing
fallback_skipped(df, first) == df

fallback_stage(df, first) ==
    LET df_dates_diag_subset ==
            [i \in 1..Len(Unresolved(df)) |-> [key |-> Unresolved(df)[i]]]
        df_first_date == MergeLeft(df_dates_diag_subset, first, [DATE |-> NaT])
    IN  IF Unresolved(df) # <<>> THEN resolve(df, df_first_date) ELSE df

----------------------------------------------------------------------------
(* The Date_Diag run: one call, stage by stage *)

D0 == Ordinal(2018, 12, 31)   \* before the date range
D1 == Ordinal(2019, 3, 15)
D2 == Ordinal(2020, 2, 15)
D3 == Ordinal(2020, 3, 1)
D4 == Ordinal(2020, 3, 15)
D5 == Ordinal(2020, 4, 10)

DiagEvents ==
    {<<"DCIR", "SURGERY", D0>>, <<"PMSI", "SURGERY", D4>>, <<"DCIR", "CHEMO", D5>>,
     <<"DCIR", "BIOPSY", D1>>, <<"PMSI", "BIOPSY", D3>>, <<"DCIR", "BIOPSY", D4>>,
     <<"DCIR", "CYTOLOGY", D2>>, <<"PMSI", "CYTOLOGY", D4>>,
     <<"DCIR", "IMAGING", D2>>, <<"PMSI", "IMAGING", D3>>, <<"DCIR", "IMAGING", D4>>}

DiagRows == {Row(k, e[1], "CCAM", e[2], e[3]) : k \in KeyUniverse, e \in DiagEvents}

\* the identity columns of a cohort table
KeyColumns == {"BEN_IDT_ANO", "BEN_NIR_PSA", "BEN_RNG_GEM"}

\* the arguments pass the checks at the head of every method: the cohort has
\* the identity columns and no other, `years` is a list, the code set a dict
ValidArgs ==
    /\ method = "" /\ queried = FALSE
    /\ columns = KeyColumns /\ years_arg = "list" /\ dict_type = "dict"

\* no table has been computed yet
Idle ==
    /\ df_first_treatment = <<>> /\ df_dates_diag = <<>>
    /\ df_Treatment = <<>> /\ surgery_date = <<>> /\ treatment_date = <<>>
    /\ df_treatment_setting = <<>>
    /\ df_chemotherapy = <<>> /\ df_CT = <<>> /\ df_res = <<>>
    /\ df_endoctrine_therapy = <<>> /\ df_ET = <<>>
    /\ Pathway = <<>> /\ BC_SubType = <<>>
    /\ df_char = <<>>
    /\ calls = <<>>

\* no per-group rule is being applied
NoRule == patient_group = <<>> /\ Regimen = <<>>

InitDiag ==
    /\ cohort \in Cohorts
    /\ store \in {JoinBen(S) : S \in KSubsets(DiagRows, MaxDiagRows)}
    /\ dict_treatment = <<>>
    /\ pc = "Date_Diag"
    /\ print_opt = FALSE
    /\ ValidArgs
    /\ Idle
    /\ NoRule

DD_FirstTreatment ==
    /\ pc = "Date_Diag"
    /\ LET first == first_date_treatment(store, All_BC_Codes, Range(cohort))
       IN  IF first.ok
           THEN /\ df_first_treatment' = first.df
                /\ df_dates_diag' = init_dates_diag(cohort)
                /\ pc' = "biopsy"
           ELSE /\ pc' = "raised"
                /\ UNCHANGED <<df_first_treatment, df_dates_diag>>
    /\ UNCHANGED <<args, twiceVars, statVars, queried, charVars, etVars, ruleVars, settingVars, regimenVars>>

DD_Biopsy ==
    /\ pc = "biopsy"
    /\ df_dates_diag' = biopsy_stage(store, df_dates_diag, df_first_treatment)
    /\ pc' = "cytology"
    /\ UNCHANGED <<args, twiceVars, statVars, queried, charVars, etVars, ruleVars, df_first_treatment, settingVars, regimenVars>>

DD_Cytology ==
    /\ pc = "cytology"
    /\ df_dates_diag' = cytology_stage(store, df_dates_diag, df_first_treatment)
    /\ pc' = "imagery"
    /\ UNCHANGED <<args, twiceVars, statVars, queried, charVars, etVars, ruleVars, df_first_treatment, settingVars, regimenVars>>

DD_Imagery ==
    /\ pc = "imagery"
    /\ IF imagery_raises(store, df_dates_diag, df_first_treatment)
       THEN pc' = "raised" /\ UNCHANGED df_dates_diag
       ELSE /\ df_dates_diag' = imagery_stage(store, df_dates_diag, df_first_treatment)
            /\ pc' = "fallback"
    /\ UNCHANGED <<args, twiceVars, statVars, queried, charVars, etVars, ruleVars, df_first_treatment, settingVars, regimenVars>>

DD_Fallback ==
    /\ pc = "fallback"
    /\ df_dates_diag' = fallback_stage(df_dates_diag, df_first_treatment)
    /\ pc' = "returned"
    /\ UNCHANGED <<args, twiceVars, statVars, queried, charVars, etVars, ruleVars, df_first_treatment, settingVars, regimenVars>>

NextDiag == DD_FirstTreatment \/ DD_Biopsy \/ DD_Cytology \/ DD_Imagery \/ DD_Fallback

SpecDiag == InitDiag /\ [][NextDiag]_vars

----------------------------------------------------------------------------
(* What the record store holds for one patient key, whatever the cohort *)

InRange(d) == years[1] <= d /\ d <= years[2]

\* the dates of the patient's own events with one of the codes
OwnDates(k, codes) ==
    {r.date : r \in {x \in store : x.key = k /\ x.code \in codes /\ InRange(x.date)}}

AnyTreatmentCodes == UNION {All_BC_Codes[i].codes : i \in 1..Len(All_BC_Codes)}

\* the patient's first any-treatment date, NaT when there is none
FirstAnyTreatment(k) ==
    IF OwnDates(k, AnyTreatmentCodes) = {} THEN NaT
    ELSE SetMin(OwnDates(k, AnyTreatmentCodes))

\* the patient's events strictly inside the year before the first treatment
InWindow(k, codes) ==
    {d \in OwnDates(k, codes) :
        /\ FirstAnyTreatment(k) # NaT
        /\ d > MinusOneYear(FirstAnyTreatment(k))
        /\ d < FirstAnyTreatment(k)}

\* the Date_Diag values of the rows of the patient in the table
DiagOf(k) ==
    {df_dates_diag[i].Date_Diag : i \in {j \in 1..Len(df_dates_diag) : df_dates_diag[j].key = k}}

----------------------------------------------------------------------------
(* Claims on Date_Diag *)

\* C1: in the table Date_Diag returns, every cohort patient with a biopsy
\* strictly inside the year before the first any-treatment date has the
\* earliest such biopsy date, whatever cytology or imaging events exist; and
\* a patient without such a biopsy but with an in-window cytology has the
\* earliest such cytology date.
C1_PriorityOrder ==
    pc = "returned" =>
        \A k \in Range(cohort) :
            /\ InWindow(k, Breast_core_biopsy) # {} =>
                  DiagOf(k) = {SetMin(InWindow(k, Breast_core_biopsy))}
            /\ (InWindow(k, Breast_core_biopsy) = {}
                    /\ InWindow(k, Fine_needle_aspiration_cytology) # {}) =>
                  DiagOf(k) = {SetMin(InWindow(k, Fine_needle_aspiration_cytology))}

\* C2: once a stage has set a patient's Date_Diag to a date, no later stage
\* changes that row.
C2_ResolvedIsFinal ==
    [][\A i \in 1..Len(df_dates_diag) :
          df_dates_diag[i].Date_Diag # NaT =>
              /\ i <= Len(df_dates_diag')
              /\ df_dates_diag'[i] = df_dates_diag[i]]_vars

\* C3: for any cohort of unique keys and any events, Date_Diag returns a
\* table with exactly one row per cohort patient, whose Date_Diag is null
\* exactly when the patient has no any-treatment event in the date range.
C3_Totality ==
    /\ pc # "raised"
    /\ pc = "returned" =>
          /\ Len(df_dates_diag) = Len(cohort)
          /\ \A k \in Range(cohort) :
                /\ Cardinality({i \in 1..Len(df_dates_diag) : df_dates_diag[i].key = k}) = 1
                /\ (DiagOf(k) = {NaT}) <=> (FirstAnyTreatment(k) = NaT)

\* the patient is left to the fallback: a first any-treatment date, no
\* in-window biopsy, no in-window cytology, no imaging before that date
FallbackCase(k) ==
    /\ FirstAnyTreatment(k) # NaT
    /\ InWindow(k, Breast_core_biopsy) = {}
    /\ InWindow(k, Fine_needle_aspiration_cytology) = {}
    /\ \A d \in OwnDates(k, Breast_Imaging_Procedures) : d >= FirstAnyTreatment(k)

ImagingBefore(k) ==
    {d \in OwnDates(k, Breast_Imaging_Procedures) :
        FirstAnyTreatment(k) # NaT /\ d < FirstAnyTreatment(k)}

\* the imaging date that follows d among the patient's dates
NextImaging(k, d) == SetMin({x \in ImagingBefore(k) : x > d})

\* from d to the most recent imaging date every date is at most one month
\* before the next one
ChainedWithin(k, d) ==
    \A a \in ImagingBefore(k) :
        (a >= d /\ a # SetMax(ImagingBefore(k))) => a >= MinusOneMonth(NextImaging(k, a))

\* the same with every gap shorter than one month
ChainedUnder(k, d) ==
    \A a \in ImagingBefore(k) :
        (a >= d /\ a # SetMax(ImagingBefore(k))) => a > MinusOneMonth(NextImaging(k, a))

\* the patient is left to the imaging stage and has imaging to use
ImagingCase(k) ==
    /\ InWindow(k, Breast_core_biopsy) = {}
    /\ InWindow(k, Fine_needle_aspiration_cytology) = {}
    /\ ImagingBefore(k) # {}

\* C22: in the table Date_Diag returns, a patient unresolved after biopsy
\* and cytology who has imaging strictly before the first treatment date is
\* dated by the earliest date of the most recent imaging cluster, where an
\* earlier date joins the cluster while it lies at most one month before
\* the cluster's earliest date (exactly one month still joins) and the
\* first longer gap ends the cluster.
C22_ImagingCluster ==
    pc = "returned" =>
        \A k \in Range(cohort) :
            ImagingCase(k) =>
                DiagOf(k) = {SetMin({d \in ImagingBefore(k) : ChainedWithin(k, d)})}

\* the rule as the loop applies it: a date joins the cluster only when it
\* lies less than one month before the cluster's earliest date
C22_ImagingClusterUnder ==
    pc = "returned" =>
        \A k \in Range(cohort) :
            ImagingCase(k) =>
                DiagOf(k) = {SetMin({d \in ImagingBefore(k) : ChainedUnder(k, d)})}

\* the date the biopsy stage, then the cytology stage, give the patient
BiopsyDate(k) ==
    IF InWindow(k, Breast_core_biopsy) # {}
    THEN SetMin(InWindow(k, Breast_core_biopsy)) ELSE NaT

CytologyDate(k) ==
    IF BiopsyDate(k) # NaT THEN BiopsyDate(k)
    ELSE IF InWindow(k, Fine_needle_aspiration_cytology) # {}
         THEN SetMin(InWindow(k, Fine_needle_aspiration_cytology)) ELSE NaT

\* C23: the biopsy and the cytology stage use the open window (first
\* treatment date - 1 year, first treatment date): an event on the first
\* treatment date or exactly one year before it does not qualify. After the
\* biopsy stage a patient has the earliest qualifying biopsy date, or no
\* date; the cytology stage touches only the patients the biopsy stage left
\* without a date, and gives them the earliest qualifying cytology date.
C23_OpenWindow ==
    /\ pc = "cytology" => \A k \in Range(cohort) : DiagOf(k) = {BiopsyDate(k)}
    /\ pc = "imagery" => \A k \in Range(cohort) : DiagOf(k) = {CytologyDate(k)}

\* the biopsy half of it
C23_BiopsyWindow ==
    pc = "cytology" => \A k \in Range(cohort) : DiagOf(k) = {BiopsyDate(k)}

\* C29: a date in the Date_Diag table never lies after the patient's first
\* any-treatment date. The dates present after the biopsy and the cytology
\* stage lie strictly inside the year before that date, the dates present
\* after the imaging stage lie strictly before it, so that a Date_Diag
\* equal to the first treatment date can only come from the fallback.
C29_BeforeTreatment ==
    \A k \in Range(cohort) : \A v \in DiagOf(k) \ {NaT} :
        /\ pc \in {"cytology", "imagery"} =>
              /\ FirstAnyTreatment(k) # NaT
              /\ MinusOneYear(FirstAnyTreatment(k)) < v /\ v < FirstAnyTreatment(k)
        /\ pc = "fallback" => v < FirstAnyTreatment(k)
        /\ pc = "returned" => v <= FirstAnyTreatment(k)

\* a returned table with a patient dated by a biopsy before the first
\* treatment and a patient dated by the fallback
C29_Witness ==
    /\ pc = "returned"
    /\ \E k \in Range(cohort) :
          /\ BiopsyDate(k) # NaT
          /\ DiagOf(k) = {BiopsyDate(k)}
    /\ \E k \in Range(cohort) :
          /\ FirstAnyTreatment(k) # NaT
          /\ DiagOf(k) = {FirstAnyTreatment(k)}

----------------------------------------------------------------------------
(* SNDS_BC.treatment_setting *)

\* a missing value in a column of strings
NA == "<NA>"

\* the strict comparison in place of <=
Setting_strict(DATE_treatment, DATE_surgery) ==
    IF DATE_surgery = NaT THEN "Neoadjuvant"
    ELSE IF DATE_treatment < DATE_surgery THEN "Neoadjuvant" ELSE "Adjuvant"

\* the placeholder left where there is no surgery date
Setting_placeholder(DATE_treatment, DATE_surgery) ==
    IF DATE_surgery = NaT THEN "0"
    ELSE IF DATE_treatment <= DATE_surgery THEN "Neoadjuvant" ELSE "Adjuvant"

\* the Setting column of one row of `merged`: '0', then 'Neoadjuvant' where
\* DATE_surgery is null, then 'Neoadjuvant' where DATE_treatment <=
\* DATE_surgery, then 'Adjuvant' where DATE_treatment > DATE_surgery (a
\* comparison with a null date is false)
Setting(DATE_treatment, DATE_surgery) ==
    LET s0 == "0"
        s1 == IF DATE_surgery = NaT THEN "Neoadjuvant" ELSE s0
        s2 == IF DATE_surgery # NaT /\ DATE_treatment <= DATE_surgery
              THEN "Neoadjuvant" ELSE s1
        s3 == IF DATE_surgery # NaT /\ DATE_treatment > DATE_surgery
              THEN "Adjuvant" ELSE s2
    IN  s3

\* pd.merge(treatment_date, surgery_date, how='left') with the Setting column
merged(treatment, surgery) ==
    LET L == [i \in 1..Len(treatment) |->
                 [key |-> treatment[i].key, DATE_treatment |-> treatment[i].DATE]]
        R == [i \in 1..Len(surgery) |->
                 [key |-> surgery[i].key, DATE_surgery |-> surgery[i].DATE]]
        m == MergeLeft(L, R, [DATE_surgery |-> NaT])
    IN  [i \in 1..Len(m) |->
            m[i] @@ [Setting |-> Setting(m[i].DATE_treatment, m[i].DATE_surgery)]]

\* a cohort row without a row in `merged` keeps Setting 'No'
fillna_No(df) ==
    [i \in 1..Len(df) |->
        [df[i] EXCEPT !.Setting = IF @ = NA THEN "No" ELSE @]]

\* pd.merge(df_ID_PATIENT, merged, how='left'), Setting.fillna('No')
setting_table(df_ID_PATIENT, m) ==
    fillna_No(MergeLeft([i \in 1..Len(df_ID_PATIENT) |-> [key |-> df_ID_PATIENT[i]]], m,
                        [DATE_treatment |-> NaT, DATE_surgery |-> NaT, Setting |-> NA]))

----------------------------------------------------------------------------
(* The treatment_setting run, after Had_Treatment of the same code set *)

T1 == Ordinal(2020, 3, 1)
T2 == Ordinal(2020, 3, 15)
T3 == Ordinal(2020, 4, 10)

SettingEvents ==
    {<<"PMSI", "CCAM", "SURGERY", T1>>, <<"DCIR", "CCAM", "SURGERY", T2>>,
     <<"DCIR", "CCAM", "CHEMO", T1>>, <<"DCIR", "CCAM", "CHEMO", T2>>,
     <<"PMSI", "CCAM", "CHEMO", T3>>,
     <<"DCIR", "UCD", "UCD_CHEMO", T2>>, <<"PMSI", "UCD", "UCD_CHEMO", T3>>}

SettingRows == {Row(k, e[1], e[2], e[3], e[4]) : k \in KeyUniverse, e \in SettingEvents}

\* the dict_treatment arguments of the model
DictTreatments ==
    {CodeSet("CCAM", {"CHEMO"}),
     CodeSet("UCD", {"UCD_CHEMO"}),
     CodeSet("CCAM", {"CHEMO"}) \o CodeSet("UCD", {"UCD_CHEMO"})}

InitSetting ==
    /\ cohort \in Cohorts
    /\ store \in {JoinBen(S) : S \in KSubsets(SettingRows, MaxSettingRows)}
    /\ dict_treatment \in DictTreatments
    /\ pc = "Had_Treatment"
    /\ print_opt = FALSE
    /\ ValidArgs
    /\ Idle
    /\ NoRule

HT_Call ==
    /\ pc = "Had_Treatment"
    /\ df_Treatment' = Had_Treatment(store, dict_treatment, cohort, FALSE).df
    /\ pc' = "treatment_setting"
    /\ UNCHANGED <<args, twiceVars, statVars, queried, charVars, etVars, ruleVars, diagVars, surgery_date, treatment_date,
                   df_treatment_setting, regimenVars>>

TS_FirstDates ==
    /\ pc = "treatment_setting"
    /\ LET s == first_date_treatment(store, Surgery, Range(cohort))
           t == first_date_treatment(store, dict_treatment, Range(cohort))
       IN  IF s.ok /\ t.ok
           THEN /\ surgery_date' = s.df
                /\ treatment_date' = t.df
                /\ pc' = "merged"
           ELSE /\ pc' = "raised"
                /\ UNCHANGED <<surgery_date, treatment_date>>
    /\ UNCHANGED <<args, twiceVars, statVars, queried, charVars, etVars, ruleVars, diagVars, df_Treatment, df_treatment_setting, regimenVars>>

TS_Setting ==
    /\ pc = "merged"
    /\ df_treatment_setting' = setting_table(cohort, merged(treatment_date, surgery_date))
    /\ pc' = "returned"
    /\ UNCHANGED <<args, twiceVars, statVars, queried, charVars, etVars, ruleVars, diagVars, df_Treatment, surgery_date, treatment_date,
                   regimenVars>>

NextSetting == HT_Call \/ TS_FirstDates \/ TS_Setting

SpecSetting == InitSetting /\ [][NextSetting]_vars

----------------------------------------------------------------------------
(* Claims on treatment_setting *)

\* the events of the store that an item of the code set names
Named(r, dict_code) ==
    \E i \in 1..Len(dict_code) :
        /\ r.type = dict_code[i].type
        /\ dict_code[i].codes # {} => r.code \in dict_code[i].codes

\* the dates of the patient's own events of a code set
OwnDatesOf(k, dict_code) ==
    {r.date : r \in {x \in store : x.key = k /\ Named(x, dict_code) /\ InRange(x.date)}}

\* the patient's first date of a code set, NaT when there is none
FirstOwn(k, dict_code) ==
    IF OwnDatesOf(k, dict_code) = {} THEN NaT ELSE SetMin(OwnDatesOf(k, dict_code))

\* the Setting values of the rows of the patient in the returned table
SettingOf(k) ==
    {df_treatment_setting[i].Setting :
        i \in {j \in 1..Len(df_treatment_setting) : df_treatment_setting[j].key = k}}

\* C5: in the table treatment_setting returns, every patient with both a
\* first treatment date t and a first surgery date s is labelled
\* 'Neoadjuvant' when t <= s (t = s included) and 'Adjuvant' when t > s.
C5_BeforeOrAfterSurgery ==
    pc = "returned" =>
        \A k \in Range(cohort) :
            (FirstOwn(k, dict_treatment) # NaT /\ FirstOwn(k, Surgery) # NaT) =>
                SettingOf(k) = {IF FirstOwn(k, dict_treatment) <= FirstOwn(k, Surgery)
                                THEN "Neoadjuvant" ELSE "Adjuvant"}

\* C5 happens: one patient treated on the day of the surgery is labelled
\* 'Neoadjuvant', another treated after the surgery is labelled 'Adjuvant'
C5_Witness ==
    /\ pc = "returned"
    /\ \E k \in Range(cohort) :
          /\ FirstOwn(k, Surgery) # NaT
          /\ FirstOwn(k, dict_treatment) = FirstOwn(k, Surgery)
          /\ SettingOf(k) = {"Neoadjuvant"}
    /\ \E k \in Range(cohort) :
          /\ FirstOwn(k, Surgery) # NaT
          /\ FirstOwn(k, dict_treatment) > FirstOwn(k, Surgery)
          /\ SettingOf(k) = {"Adjuvant"}

C7_SettingTotality ==
    /\ pc # "raised"
    /\ pc = "returned" =>
          /\ Len(df_treatment_setting) = Len(cohort)
          /\ \A i \in 1..Len(cohort) :
                /\ Cardinality(SettingOf(cohort[i])) = 1
                /\ SettingOf(cohort[i]) \subseteq {"No", "Neoadjuvant", "Adjuvant"}
                /\ (SettingOf(cohort[i]) = {"No"}) <=> (df_Treatment[i].Response = 0)

----------------------------------------------------------------------------
(* SNDS_BC.Chemotherapy_Regimen *)

\* df_res = df_chemotherapy.copy() with CT_Regimen = str(np.nan)
init_res(df) ==
    [i \in 1..Len(df) |-> df[i] @@ [CT_Regimen |-> "nan"]]

KeyDateLT(a, b) ==
    \/ KeyLT(a.key, b.key)
    \/ a.key = b.key /\ a.DATE < b.DATE

RECURSIVE SortedKeyDates(_)
SortedKeyDates(S) ==
    IF S = {} THEN <<>>
    ELSE LET x == CHOOSE y \in S : \A z \in S \ {y} : KeyDateLT(y, z)
         IN  <<x>> \o SortedKeyDates(S \ {x})

\* df_CT.groupby([BEN_IDT_ANO, BEN_NIR_PSA, BEN_RNG_GEM, DATE],
\* as_index=False).agg(first): one row per key and date, in that order
distinct_dates(rows) ==
    SortedKeyDates({[key |-> r.key, DATE |-> r.date] : r \in rows})

\* # No CT: the rows whose BEN_IDT_ANO is the BEN_IDT_ANO of a row with
\* Response 0
label_No(res, chemo) ==
    LET ids == {chemo[i].key.BEN_IDT_ANO : i \in {j \in 1..Len(chemo) : chemo[j].Response = 0}}
    IN  [i \in 1..Len(res) |->
            IF res[i].key.BEN_IDT_ANO \in ids
            THEN [res[i] EXCEPT !.CT_Regimen = "No"] ELSE res[i]]

RECURSIVE SortedInts(_)
SortedInts(S) ==
    IF S = {} THEN <<>> ELSE <<SetMin(S)>> \o SortedInts(S \ {SetMin(S)})

\* df_CT.groupby('BEN_IDT_ANO').size(): one count per BEN_IDT_ANO, in order
group_sizes(ct) ==
    LET ids == SortedInts({ct[i].key.BEN_IDT_ANO : i \in 1..Len(ct)})
    IN  [g \in 1..Len(ids) |->
            Cardinality({i \in 1..Len(ct) : ct[i].key.BEN_IDT_ANO = ids[g]})]

\* np.unique(df_CT.iloc[np.where(size == 1)[0]].BEN_IDT_ANO): the positions
\* of the groups of size 1 in the series of sizes, read as positions of rows
\* of df_CT
iloc_ids(ct) ==
    {ct[g].key.BEN_IDT_ANO : g \in {h \in 1..Len(group_sizes(ct)) : group_sizes(ct)[h] = 1}}

\* # Only one CT
label_One(res, ct) ==
    [i \in 1..Len(res) |->
        IF res[i].key.BEN_IDT_ANO \in iloc_ids(ct)
        THEN [res[i] EXCEPT !.CT_Regimen = "One Treatment"] ELSE res[i]]

IdDateLT(a, b) ==
    \/ a.key.BEN_IDT_ANO < b.key.BEN_IDT_ANO
    \/ a.key.BEN_IDT_ANO = b.key.BEN_IDT_ANO /\ a.DATE < b.DATE

RECURSIVE sort_values(_)
\* df_CT.sort_values(by=['BEN_IDT_ANO', 'DATE']): ties keep their order
sort_values(df) ==
    IF df = <<>> THEN <<>>
    ELSE LET i == CHOOSE j \in 1..Len(df) :
                    /\ \A h \in 1..Len(df) : ~IdDateLT(df[h], df[j])
                    /\ \A h \in 1..(j - 1) : IdDateLT(df[j], df[h])
         IN  <<df[i]>> \o sort_values(SubSeq(df, 1, i - 1) \o SubSeq(df, i + 1, Len(df)))

\* round_diff: 13 and 15 to 14, 20 and 22 to 21, 6 and 8 to 7
round_diff(value) ==
    IF value \in {13, 15} THEN 14
    ELSE IF value \in {20, 22} THEN 21
    ELSE IF value \in {6, 8} THEN 7
    ELSE value

\* DIFF: the days since the previous row of the same BEN_IDT_ANO, 0 on the
\* first row of each BEN_IDT_ANO, rounded
with_diff(df) ==
    [i \in 1..Len(df) |->
        df[i] @@ [DIFF |-> round_diff(
            IF i = 1 \/ df[i - 1].key.BEN_IDT_ANO # df[i].key.BEN_IDT_ANO
            THEN 0 ELSE df[i].DATE - df[i - 1].DATE)]]

\* df_filtered = df_CT[df_CT['DIFF'] != 0]
filtered(df) == SelectSeq(df, LAMBDA r : r.DIFF # 0)

\* determine_CT_treatment with the 14-day gaps kept in remaining_diffs
determine_CT_treatment_strict(diffs) ==
    LET indices_of_14 == {i \in 1..Len(diffs) : diffs[i] = 14}
        second == SetMin(indices_of_14 \ {SetMin(indices_of_14)})
        remaining_diffs == {diffs[i] : i \in (second + 1)..Len(diffs)}
    IN  IF \A i \in 1..Len(diffs) : diffs[i] = 7 THEN "Unitherapy"
        ELSE IF Cardinality(indices_of_14) >= 2 /\ remaining_diffs \subseteq {7, 21}
             THEN "Bitherapy"
             ELSE "Unknown"

\* determine_CT_treatment on the list of DIFF of one group
determine_CT_treatment(diffs) ==
    LET indices_of_14 == {i \in 1..Len(diffs) : diffs[i] = 14}
        second == SetMin(indices_of_14 \ {SetMin(indices_of_14)})
        remaining_diffs == {diffs[i] : i \in {j \in (second + 1)..Len(diffs) : diffs[j] # 14}}
    IN  IF \A i \in 1..Len(diffs) : diffs[i] = 7 THEN "Unitherapy"
        ELSE IF Cardinality(indices_of_14) >= 2 /\ remaining_diffs \subseteq {7, 21}
             THEN "Bitherapy"
             ELSE "Unknown"

\* df_filtered.groupby(keys).apply(determine_CT_treatment)
\* .reset_index(name='Regimen')
CT_Regimen_table(df_filtered) ==
    LET ks == SortedKeys({df_filtered[i].key : i \in 1..Len(df_filtered)})
    IN  [g \in 1..Len(ks) |->
            LET group == SelectSeq(df_filtered, LAMBDA r : r.key = ks[g])
            IN  [key |-> ks[g],
                 Regimen |-> determine_CT_treatment([i \in 1..Len(group) |-> group[i].DIFF])]]

\* df_res.merge(df_CT_Regimen, how='left'); 'nan' becomes null (the
\* in-place replace on the column acts on df_res, as in pandas before
\* copy-on-write); CT_Regimen.fillna(Regimen); drop Regimen
fill_regimen(res, df_CT_Regimen) ==
    LET m == MergeLeft(res, df_CT_Regimen, [Regimen |-> NA])
    IN  [i \in 1..Len(m) |->
            [key |-> m[i].key, Response |-> m[i].Response,
             CT_Regimen |-> IF m[i].CT_Regimen = "nan" THEN m[i].Regimen
                            ELSE m[i].CT_Regimen]]

\* the whole call; it raises when treatment_dates raises or finds no event
\* (the groupby needs the key columns) and when df_filtered is empty (apply
\* over no group gives a DataFrame, whose reset_index takes no `name`)
Chemotherapy_Regimen(db, df_ID_PATIENT) ==
    LET chemo == Had_Treatment(db, CT, df_ID_PATIENT, FALSE).df
        dates == treatment_dates(db, CT, Range(df_ID_PATIENT))
        ct == distinct_dates(dates.rows)
        res == label_One(label_No(init_res(chemo), chemo), ct)
        df_filtered == filtered(with_diff(sort_values(ct)))
    IN  IF ~dates.ok \/ dates.rows = {} \/ df_filtered = <<>>
        THEN [ok |-> FALSE, df |-> <<>>]
        ELSE [ok |-> TRUE, df |-> fill_regimen(res, CT_Regimen_table(df_filtered))]

----------------------------------------------------------------------------
(* The Chemotherapy_Regimen run, step by step *)

B0 == Ordinal(2020, 1, 6)

\* days after B0 of the chemotherapy sessions of the model
Offsets == {0, 7, 14, 15, 28}

RegimenEvents ==
    {<<"DCIR", B0 + o>> : o \in Offsets} \cup {<<"PMSI", B0>>}

RegimenRows == {Row(k, e[1], "CCAM", "CHEMO", e[2]) : k \in KeyUniverse, e \in RegimenEvents}

InitRegimen ==
    /\ cohort \in Cohorts
    /\ store \in {JoinBen(S) : S \in KSubsets(RegimenRows, MaxCTRows)}
    /\ dict_treatment = <<>>
    /\ pc = "Chemotherapy_Regimen"
    /\ print_opt = FALSE
    /\ ValidArgs
    /\ Idle
    /\ NoRule

CR_HadTreatment ==
    /\ pc = "Chemotherapy_Regimen"
    /\ df_chemotherapy' = Had_Treatment(store, CT, cohort, FALSE).df
    /\ df_res' = init_res(df_chemotherapy')
    /\ pc' = "treatment_dates"
    /\ UNCHANGED <<args, twiceVars, statVars, queried, charVars, etVars, ruleVars, diagVars, settingVars, df_CT>>

CR_Dates ==
    /\ pc = "treatment_dates"
    /\ LET dates == treatment_dates(store, CT, Range(cohort))
       IN  IF dates.ok /\ dates.rows # {}
           THEN df_CT' = distinct_dates(dates.rows) /\ pc' = "label"
           ELSE pc' = "raised" /\ UNCHANGED df_CT
    /\ UNCHANGED <<args, twiceVars, statVars, queried, charVars, etVars, ruleVars, diagVars, settingVars, df_chemotherapy, df_res>>

CR_Label ==
    /\ pc = "label"
    /\ df_res' = label_One(label_No(df_res, df_chemotherapy), df_CT)
    /\ pc' = "regimen"
    /\ UNCHANGED <<args, twiceVars, statVars, queried, charVars, etVars, ruleVars, diagVars, settingVars, df_chemotherapy, df_CT>>

CR_Regimen ==
    /\ pc = "regimen"
    /\ LET df_filtered == filtered(with_diff(sort_values(df_CT)))
       IN  IF df_filtered = <<>>
           THEN pc' = "raised" /\ UNCHANGED df_res
           ELSE /\ df_res' = fill_regimen(df_res, CT_Regimen_table(df_filtered))
                /\ pc' = "returned"
    /\ UNCHANGED <<args, twiceVars, statVars, queried, charVars, etVars, ruleVars, diagVars, settingVars, df_chemotherapy, df_CT>>

NextRegimen == CR_HadTreatment \/ CR_Dates \/ CR_Label \/ CR_Regimen

SpecRegimen == InitRegimen /\ [][NextRegimen]_vars

----------------------------------------------------------------------------
(* Claims on Chemotherapy_Regimen *)

\* the CT_Regimen values of the rows of the patient in a table
RegimenIn(df, k) ==
    {df[i].CT_Regimen : i \in {j \in 1..Len(df) : df[j].key = k}}

\* the patient's distinct chemotherapy dates
ChemoDates(k) == OwnDatesOf(k, CT)

\* the rounded differences between the patient's consecutive dates
OwnDiffs(k) ==
    {round_diff(b - a) : <<a, b>> \in
        {p \in ChemoDates(k) \X ChemoDates(k) :
            /\ p[1] < p[2]
            /\ \A d \in ChemoDates(k) : ~(p[1] < d /\ d < p[2])}}

\* C8: in the table Chemotherapy_Regimen returns, every patient with
\* exactly one distinct chemotherapy date is labelled 'One Treatment', and
\* no patient with two or more distinct dates is.
C8_OneTreatment ==
    pc = "returned" =>
        \A k \in Range(cohort) :
            /\ Cardinality(ChemoDates(k)) = 1 => RegimenIn(df_res, k) = {"One Treatment"}
            /\ Cardinality(ChemoDates(k)) >= 2 => "One Treatment" \notin RegimenIn(df_res, k)

\* C9: the label a patient gets in the returned table is the label the
\* patient gets when Chemotherapy_Regimen runs on the patient alone with the
\* patient's own events: the other patients make no difference.
C9_Independence ==
    pc = "returned" =>
        \A k \in Range(cohort) :
            LET alone == Chemotherapy_Regimen({r \in store : r.key = k}, <<k>>)
            IN  alone.ok => RegimenIn(alone.df, k) = RegimenIn(df_res, k)

\* C10: in the table Chemotherapy_Regimen returns, a patient with two or
\* more distinct chemotherapy dates whose consecutive differences all round
\* to 7 is labelled 'Unitherapy', and no patient with a rounded difference
\* other than 7 is.
C10_Unitherapy ==
    pc = "returned" =>
        \A k \in Range(cohort) :
            /\ (Cardinality(ChemoDates(k)) >= 2 /\ OwnDiffs(k) = {7})
                  => RegimenIn(df_res, k) = {"Unitherapy"}
            /\ (OwnDiffs(k) \ {7} # {}) => "Unitherapy" \notin RegimenIn(df_res, k)

\* the DIFF list determine_CT_treatment receives for the patient: the rows
\* of df_filtered with the patient's key
ClassifiedDiffs(k) ==
    LET group == SelectSeq(filtered(with_diff(sort_values(df_CT))), LAMBDA r : r.key = k)
    IN  [i \in 1..Len(group) |-> group[i].DIFF]

\* the patient's distinct chemotherapy dates in ascending order
OwnDateList(k) == SortedInts(ChemoDates(k))

\* the rounding table of the three cycle lengths
Rounded(v) ==
    IF v \in {6, 7, 8} THEN 7
    ELSE IF v \in {13, 14, 15} THEN 14
    ELSE IF v \in {20, 21, 22} THEN 21
    ELSE v

\* C24: each difference in days between consecutive distinct dates of a
\* patient is rounded 6,7,8 to 7, 13,14,15 to 14, 20,21,22 to 21 and left
\* unchanged otherwise; the zero differences are dropped, so the list that
\* is classified for a patient holds the rounded differences of the
\* patient's consecutive dates: one entry less than the distinct dates.
C24_Rounding ==
    pc = "returned" =>
        \A k \in Range(cohort) :
            ChemoDates(k) # {} =>
                /\ Len(ClassifiedDiffs(k)) = Cardinality(ChemoDates(k)) - 1
                /\ \A i \in 1..Len(ClassifiedDiffs(k)) :
                       ClassifiedDiffs(k)[i] =
                           Rounded(OwnDateList(k)[i + 1] - OwnDateList(k)[i])

\* the same for the cohorts whose patients differ in BEN_IDT_ANO and whose
\* record store has events of no other key with one of their BEN_IDT_ANO
C24_RoundingUniqueId ==
    (/\ pc = "returned"
     /\ \A r \in store : \A k \in Range(cohort) :
            r.key.BEN_IDT_ANO = k.BEN_IDT_ANO => r.key = k
     /\ \A a, b \in Range(cohort) : a.BEN_IDT_ANO = b.BEN_IDT_ANO => a = b) =>
        \A k \in Range(cohort) :
            ChemoDates(k) # {} =>
                /\ Len(ClassifiedDiffs(k)) = Cardinality(ChemoDates(k)) - 1
                /\ \A i \in 1..Len(ClassifiedDiffs(k)) :
                       ClassifiedDiffs(k)[i] =
                           Rounded(OwnDateList(k)[i + 1] - OwnDateList(k)[i])

----------------------------------------------------------------------------
(* determine_CT_treatment applied to the DIFF list of one patient group *)

MaxDiffs == 5        \* entries of the DIFF list of one group

\* rounded day-differences: a weekly, a fortnightly and a three-weekly gap,
\* and a gap outside every cycle
DiffValues == {7, 10, 14, 21}

RECURSIVE SeqsUpTo(_, _)
\* the sequences over S of length 0..n
SeqsUpTo(S, n) ==
    IF n = 0 THEN {<<>>}
    ELSE LET T == SeqsUpTo(S, n - 1)
         IN  T \cup {Append(t, x) : t \in T, x \in S}

\* the groups of df_filtered are not empty and hold no zero
InitCTRule ==
    /\ cohort = <<>> /\ store = {} /\ dict_treatment = <<>>
    /\ print_opt = FALSE
    /\ ValidArgs
    /\ Idle
    /\ patient_group \in SeqsUpTo(DiffValues, MaxDiffs) \ {<<>>}
    /\ Regimen = <<>>
    /\ pc = "determine_CT_treatment"

CT_Apply ==
    /\ pc = "determine_CT_treatment"
    /\ Regimen' = determine_CT_treatment(patient_group)
    /\ pc' = "returned"
    /\ UNCHANGED <<args, twiceVars, statVars, queried, charVars, etVars, diagVars, settingVars, regimenVars, patient_group>>

NextCTRule == CT_Apply

SpecCTRule == InitCTRule /\ [][NextCTRule]_vars

----------------------------------------------------------------------------
(* Claims on determine_CT_treatment *)

AllSevens == \A i \in 1..Len(patient_group) : patient_group[i] = 7

\* the positions of the 14-day gaps after the first one
Later14 ==
    {i \in 1..Len(patient_group) : patient_group[i] = 14 /\ \E j \in 1..(i - 1) : patient_group[j] = 14}

\* the diffs after the second 14-day gap all lie in `allowed`
TailWithin(allowed) ==
    /\ Later14 # {}
    /\ \A i \in (SetMin(Later14) + 1)..Len(patient_group) : patient_group[i] \in allowed

\* C11 (as stated): a DIFF list that is not all 7s is labelled 'Bitherapy'
\* exactly when it holds at least two 14s and every diff after the second 14
\* is 7 or 21, a further 14 counting as outside {7, 21}; otherwise 'Unknown'.
C11_BitherapyStated ==
    (pc = "returned" /\ ~AllSevens) =>
        Regimen = (IF TailWithin({7, 21}) THEN "Bitherapy" ELSE "Unknown")

\* C11 (amended): a DIFF list that is not all 7s is labelled 'Bitherapy'
\* exactly when it holds at least two 14s and every diff after the second 14
\* is 7, 14 or 21 (further 14-day gaps are skipped, not rejected); the diffs
\* before the second 14 are not inspected; otherwise the label is 'Unknown'.
C11_Bitherapy ==
    (pc = "returned" /\ ~AllSevens) =>
        Regimen = (IF TailWithin({7, 14, 21}) THEN "Bitherapy" ELSE "Unknown")

\* a third 14-day gap followed by a weekly gap has been classified
C11_Witness ==
    /\ pc = "returned"
    /\ patient_group = <<10, 14, 14, 14, 7>>
    /\ Regimen = "Bitherapy"

----------------------------------------------------------------------------
(* determine_ET_treatment applied to the COD_CIP list of one patient group *)

MaxETEvents == 3     \* dispensations in one group

None == "None"

RECURSIVE drop_duplicates_last(_)
\* drop_duplicates with keep='last': the last row of every drug identifier
drop_duplicates_last(cips) ==
    IF cips = <<>> THEN <<>>
    ELSE LET back == drop_duplicates_last(SubSeq(cips, 2, Len(cips)))
         IN  IF cips[1] \in Range(back) THEN back ELSE <<cips[1]>> \o back

RECURSIVE drop_duplicates(_)
\* drop_duplicates(subset=['BEN_IDT_ANO', 'COD_CIP'], keep='first') within a
\* group: the first row of every drug identifier, in row order
drop_duplicates(cips) ==
    IF cips = <<>> THEN <<>>
    ELSE LET front == drop_duplicates(SubSeq(cips, 1, Len(cips) - 1))
             last == cips[Len(cips)]
         IN  IF last \in Range(front) THEN front ELSE Append(front, last)

\* determine_ET_treatment with rules 2-5 firing on some event of the class
determine_ET_treatment_any(cips) ==
    LET codes == Range(cips)
    IN  IF codes \cap Tamoxifen # {} THEN "Tamoxifen"
        ELSE IF codes \cap Aromatase_Inhibitor # {} THEN "AI"
        ELSE IF codes \cap (Tamoxifen \cup GnRH_agonists) # {} THEN "Tamoxifen with Agonist"
        ELSE IF codes \cap (Aromatase_Inhibitor \cup GnRH_agonists) # {} THEN "AI with Agonist"
        ELSE "Unknown"

\* determine_ET_treatment on the COD_CIP of one group, in date order.  The
\* branch of a patient with both Tamoxifen and AI has no final return: when
\* neither sequence test holds the function ends and returns None.
determine_ET_treatment(cips) ==
    LET codes == Range(cips)
        dedup == drop_duplicates(cips)
    IN  IF codes \subseteq Tamoxifen THEN "Tamoxifen"
        ELSE IF codes \subseteq Aromatase_Inhibitor THEN "AI"
        ELSE IF codes \subseteq Tamoxifen \cup GnRH_agonists THEN "Tamoxifen with Agonist"
        ELSE IF codes \subseteq Aromatase_Inhibitor \cup GnRH_agonists THEN "AI with Agonist"
        ELSE IF codes \cap Tamoxifen # {} /\ codes \cap Aromatase_Inhibitor # {}
             THEN IF dedup[1] \in Tamoxifen /\ dedup[2] \in Aromatase_Inhibitor
                  THEN "Tamoxifen followed by AI"
                  ELSE IF dedup[1] \in Aromatase_Inhibitor /\ dedup[2] \in Tamoxifen
                       THEN "AI followed by Tamoxifen"
                       ELSE None
             ELSE "Unknown"

\* the identifiers a group of df_ET can hold
CipValues == UNION {ET_All[i].codes : i \in 1..Len(ET_All)}

InitETRule ==
    /\ cohort = <<>> /\ store = {} /\ dict_treatment = <<>>
    /\ print_opt = FALSE
    /\ ValidArgs
    /\ Idle
    /\ patient_group \in SeqsUpTo(CipValues, MaxETEvents) \ {<<>>}
    /\ Regimen = <<>>
    /\ pc = "determine_ET_treatment"

ET_Apply ==
    /\ pc = "determine_ET_treatment"
    /\ Regimen' = determine_ET_treatment(patient_group)
    /\ pc' = "returned"
    /\ UNCHANGED <<args, twiceVars, statVars, queried, charVars, etVars, diagVars, settingVars, regimenVars, patient_group>>

NextETRule == ET_Apply

SpecETRule == InitETRule /\ [][NextETRule]_vars

----------------------------------------------------------------------------
(* Claims on determine_ET_treatment *)

\* every dispensation of the group is of a class in S
AllIn(S) == \A i \in 1..Len(patient_group) : patient_group[i] \in S

\* C13: rules 2-5 are tested in order and each needs every dispensation of
\* the patient in its class set: all Tamoxifen gives 'Tamoxifen'; else all AI
\* gives 'AI'; else all in Tamoxifen or GnRH agonist gives 'Tamoxifen with
\* Agonist'; else all in AI or GnRH agonist gives 'AI with Agonist'; with one
\* dispensation outside the class set of a rule, that rule's label is not
\* given.
C13_AllEventsRules ==
    pc = "returned" =>
        /\ (Regimen = "Tamoxifen") = AllIn(Tamoxifen)
        /\ (Regimen = "AI") = (~AllIn(Tamoxifen) /\ AllIn(Aromatase_Inhibitor))
        /\ (Regimen = "Tamoxifen with Agonist") =
              /\ ~AllIn(Tamoxifen) /\ ~AllIn(Aromatase_Inhibitor)
              /\ AllIn(Tamoxifen \cup GnRH_agonists)
        /\ (Regimen = "AI with Agonist") =
              /\ ~AllIn(Tamoxifen) /\ ~AllIn(Aromatase_Inhibitor)
              /\ ~AllIn(Tamoxifen \cup GnRH_agonists)
              /\ AllIn(Aromatase_Inhibitor \cup GnRH_agonists)

\* a Tamoxifen patient with one AI dispensation is not labelled by rules 2-5
C13_Witness ==
    /\ pc = "returned"
    /\ patient_group = <<"TAM1", "TAM1", "AI1">>
    /\ Regimen = "Tamoxifen followed by AI"

\* the group has a dispensation of the class
Some(S) == \E i \in 1..Len(patient_group) : patient_group[i] \in S

\* the identifier of the earliest dispensation, and the earliest
\* dispensation of another identifier
FirstId == patient_group[1]
SecondId ==
    patient_group[SetMin({i \in 1..Len(patient_group) : patient_group[i] # FirstId})]

\* C25: for a group with at least one Tamoxifen and at least one AI
\* dispensation, which rules 2-5 do not label, the dispensations are reduced
\* to the earliest one of every drug identifier, in date order; there are
\* always two of them, and the label is 'Tamoxifen followed by AI' when the
\* first identifier is a Tamoxifen and the second an AI, 'AI followed by
\* Tamoxifen' when the first is an AI and the second a Tamoxifen.
C25_SequenceRule ==
    (pc = "returned" /\ Some(Tamoxifen) /\ Some(Aromatase_Inhibitor)) =>
        /\ Len(drop_duplicates(patient_group)) >= 2
        /\ drop_duplicates(patient_group)[1] = FirstId
        /\ drop_duplicates(patient_group)[2] = SecondId
        /\ ~AllIn(Tamoxifen) /\ ~AllIn(Aromatase_Inhibitor)
        /\ ~AllIn(Tamoxifen \cup GnRH_agonists)
        /\ ~AllIn(Aromatase_Inhibitor \cup GnRH_agonists)
        /\ (FirstId \in Tamoxifen /\ SecondId \in Aromatase_Inhibitor)
              => Regimen = "Tamoxifen followed by AI"
        /\ (FirstId \in Aromatase_Inhibitor /\ SecondId \in Tamoxifen)
              => Regimen = "AI followed by Tamoxifen"

\* a Tamoxifen, then an AI, then the same Tamoxifen again has been labelled
C25_Witness ==
    /\ pc = "returned"
    /\ patient_group = <<"TAM1", "AI1", "TAM1">>
    /\ Regimen = "Tamoxifen followed by AI"

\* C30: a group labelled 'Tamoxifen with Agonist' has a Tamoxifen
\* dispensation, a group labelled 'AI with Agonist' has an AI dispensation,
\* and a group of GnRH agonist dispensations only gets neither label.
C30_AgonistLabels ==
    pc = "returned" =>
        /\ Regimen = "Tamoxifen with Agonist" => Some(Tamoxifen)
        /\ Regimen = "AI with Agonist" => Some(Aromatase_Inhibitor)
        /\ AllIn(GnRH_agonists) =>
              Regimen \notin {"Tamoxifen with Agonist", "AI with Agonist"}

\* the AI half of it: 'AI with Agonist' goes with an AI dispensation
C30_AIWithAgonist ==
    (pc = "returned" /\ Regimen = "AI with Agonist") => Some(Aromatase_Inhibitor)

----------------------------------------------------------------------------
(* SNDS_BC.EndoctrineTherapy_Treatment *)

MaxETRows == 4       \* record-store rows in an EndoctrineTherapy_Treatment run

\* df_res = df_endoctrine_therapy.copy(); ET_Regimen = 'No ET' on the rows
\* whose BEN_IDT_ANO is the BEN_IDT_ANO of a row with Response 0, null on the
\* other rows
label_NoET(endo) ==
    LET zero == {endo[i].key.BEN_IDT_ANO : i \in {j \in 1..Len(endo) : endo[j].Response = 0}}
    IN  [i \in 1..Len(endo) |->
            [key |-> endo[i].key, Response |-> endo[i].Response,
             ET_Regimen |-> IF endo[i].key.BEN_IDT_ANO \in zero THEN "No ET" ELSE NA]]

\* the rows of treatment_dates with a COD_CIP, as (key, COD_CIP, DATE)
cip_rows(rows) ==
    {[key |-> r.key, COD_CIP |-> r.code, DATE |-> r.date] :
        r \in {x \in rows : x.type = "CIP13"}}

RECURSIVE SortedByDate(_)
\* the rows of one group in the order of sort_values(by=['BEN_IDT_ANO',
\* 'DATE'])
SortedByDate(S) ==
    IF S = {} THEN <<>>
    ELSE LET r == CHOOSE x \in S : \A y \in S : x.DATE <= y.DATE
         IN  <<r>> \o SortedByDate(S \ {r})

\* df_ET.groupby(keys).apply(determine_ET_treatment).reset_index(name='Regimen')
ET_Regimen_table(rows) ==
    LET ks == SortedKeys({r.key : r \in rows})
    IN  [g \in 1..Len(ks) |->
            LET grp == SortedByDate({r \in rows : r.key = ks[g]})
            IN  [key |-> ks[g],
                 Regimen |-> determine_ET_treatment([i \in 1..Len(grp) |-> grp[i].COD_CIP])]]

\* apply returns an empty DataFrame when every group returned None, and
\* reset_index of a DataFrame takes no `name`
ET_apply_raises(table) == \A g \in 1..Len(table) : table[g].Regimen = None

\* df_res.merge(df_ET_Regimen, on=keys, how='outer'): the rows of both
\* tables, in key order; a key of df_ET_Regimen that df_res lacks gets a row
\* with Response and ET_Regimen null
merge_outer(res, table) ==
    LET left == MergeLeft(res, table, [Regimen |-> NA])
        extra == SelectSeq(table,
                     LAMBDA t : \A i \in 1..Len(res) : res[i].key # t.key)
        rows == Range(left) \cup
                {[key |-> extra[i].key, Response |-> NA, ET_Regimen |-> NA,
                  Regimen |-> extra[i].Regimen] : i \in 1..Len(extra)}
        ks == SortedKeys({r.key : r \in rows})
    IN  [i \in 1..Len(ks) |-> CHOOSE r \in rows : r.key = ks[i]]

\* ET_Treatment = ET_Regimen.fillna(Regimen); drop Regimen.  A None of
\* Regimen fills nothing.
fill_ET_Treatment(m) ==
    [i \in 1..Len(m) |->
        [key |-> m[i].key, Response |-> m[i].Response, ET_Regimen |-> m[i].ET_Regimen,
         ET_Treatment |-> IF m[i].ET_Regimen # NA THEN m[i].ET_Regimen
                          ELSE IF m[i].Regimen = None THEN NA
                          ELSE m[i].Regimen]]

E1 == Ordinal(2020, 1, 10)
E2 == Ordinal(2020, 2, 10)
E3 == Ordinal(2020, 3, 10)
E4 == Ordinal(2020, 4, 10)
E5 == Ordinal(2020, 5, 10)
E6 == Ordinal(2020, 6, 10)

\* the dispensations of the model; a patient never gets two drugs on one day
ETEvents ==
    {<<"GNRH", E1>>, <<"TAM1", E2>>, <<"AI1", E3>>, <<"TAM2", E4>>,
     <<"AI1", E5>>, <<"OTHER_ET", E6>>}

ETRows == {Row(k, "DCIR", "CIP13", e[1], e[2]) : k \in KeyUniverse, e \in ETEvents}

InitET ==
    /\ cohort \in Cohorts
    /\ store \in {JoinBen(S) : S \in KSubsets(ETRows, MaxETRows)}
    /\ dict_treatment = <<>>
    /\ pc = "EndoctrineTherapy_Treatment"
    /\ print_opt = FALSE
    /\ ValidArgs
    /\ Idle
    /\ NoRule

ET_HadTreatment ==
    /\ pc = "EndoctrineTherapy_Treatment"
    /\ df_endoctrine_therapy' = Had_Treatment(store, ET_All, cohort, FALSE).df
    /\ df_res' = label_NoET(df_endoctrine_therapy')
    /\ pc' = "treatment_dates"
    /\ UNCHANGED <<args, twiceVars, statVars, queried, charVars, ruleVars, diagVars, settingVars, df_chemotherapy, df_CT, df_ET>>

ET_Dates ==
    /\ pc = "treatment_dates"
    /\ LET dates == treatment_dates(store, ET_All, Range(cohort))
       IN  IF dates.ok
           THEN df_ET' = cip_rows(dates.rows) /\ pc' = "regimen"
           ELSE pc' = "raised" /\ UNCHANGED df_ET
    /\ UNCHANGED <<args, twiceVars, statVars, queried, charVars, ruleVars, diagVars, settingVars, regimenVars, df_endoctrine_therapy>>

ET_Regimen ==
    /\ pc = "regimen"
    /\ LET df_ET_Regimen == ET_Regimen_table(df_ET)
       IN  IF ET_apply_raises(df_ET_Regimen)
           THEN pc' = "raised" /\ UNCHANGED df_res
           ELSE /\ df_res' = fill_ET_Treatment(merge_outer(df_res, df_ET_Regimen))
                /\ pc' = "returned"
    /\ UNCHANGED <<args, twiceVars, statVars, queried, charVars, ruleVars, diagVars, settingVars, df_chemotherapy, df_CT, etVars>>

NextET == ET_HadTreatment \/ ET_Dates \/ ET_Regimen

SpecET == InitET /\ [][NextET]_vars

----------------------------------------------------------------------------
(* Claims on EndoctrineTherapy_Treatment *)

\* the patient's own endocrine dispensations in the date range
OwnET(k) ==
    {r \in store : r.key = k /\ Named(r, ET_All) /\ InRange(r.date)}

\* the ET_Treatment values of the rows of the patient in the returned table
ET_TreatmentIn(df, k) ==
    {df[i].ET_Treatment : i \in {j \in 1..Len(df) : df[j].key = k}}

\* C12: in the tables the two regimen classifiers return, a cohort patient
\* has CT_Regimen 'No' exactly when the patient has no chemotherapy event in
\* the date range, and ET_Treatment 'No ET' exactly when the patient has no
\* endocrine-therapy event in the date range.
C12_AbsenceLabels ==
    pc = "returned" =>
        /\ df_chemotherapy # <<>> =>
              \A k \in Range(cohort) :
                  (ChemoDates(k) = {}) = (RegimenIn(df_res, k) = {"No"})
        /\ df_endoctrine_therapy # <<>> =>
              \A k \in Range(cohort) :
                  (OwnET(k) = {}) = (ET_TreatmentIn(df_res, k) = {"No ET"})

\* the drug identifier of the patient's earliest dispensation
FirstDrug(k) ==
    (CHOOSE r \in OwnET(k) : \A x \in OwnET(k) : r.date <= x.date).code

\* the patient's dispensations of another identifier than the first one
OtherDrugs(k) == {r \in OwnET(k) : r.code # FirstDrug(k)}

\* the second distinct drug identifier of the patient, by date
SecondDrug(k) ==
    (CHOOSE r \in OtherDrugs(k) : \A x \in OtherDrugs(k) : r.date <= x.date).code

\* one of the six labelled rules applies to the patient's dispensations
LabelledRule(k) ==
    LET codes == {r.code : r \in OwnET(k)}
    IN  \/ codes \subseteq Tamoxifen \cup GnRH_agonists
        \/ codes \subseteq Aromatase_Inhibitor \cup GnRH_agonists
        \/ /\ codes \cap Tamoxifen # {} /\ codes \cap Aromatase_Inhibitor # {}
           /\ \/ FirstDrug(k) \in Tamoxifen /\ SecondDrug(k) \in Aromatase_Inhibitor
              \/ FirstDrug(k) \in Aromatase_Inhibitor /\ SecondDrug(k) \in Tamoxifen

\* C14: in the table EndoctrineTherapy_Treatment returns, every cohort
\* patient with at least one endocrine dispensation has a label, never a
\* null, and the label is 'Unknown' when none of the labelled rules applies,
\* as for a patient with Tamoxifen and AI whose first two distinct drug
\* identifiers are neither (Tamoxifen, AI) nor (AI, Tamoxifen).
C14_UnknownFallback ==
    pc = "returned" =>
        \A k \in Range(cohort) :
            OwnET(k) # {} =>
                /\ NA \notin ET_TreatmentIn(df_res, k)
                /\ ~LabelledRule(k) => ET_TreatmentIn(df_res, k) = {"Unknown"}

----------------------------------------------------------------------------
(* SNDS_BC.therapeutic_pathway and SNDS_BC.BC_subtype on one group of df_char *)

\* def_pathway with the rule of pathway 10 left out
def_pathway_nine(pathway) ==
    IF pathway.CT = 0 /\ pathway.RT = 0 /\ pathway.TT = 0 /\ pathway.ET = 0 THEN 1
    ELSE IF pathway.CT = 0 /\ pathway.RT = 0 /\ pathway.TT = 0 /\ pathway.ET = 1 THEN 2
    ELSE IF pathway.CT = 0 /\ pathway.RT = 1 /\ pathway.TT = 0 /\ pathway.ET = 0 THEN 3
    ELSE IF pathway.CT = 0 /\ pathway.RT = 1 /\ pathway.TT = 0 /\ pathway.ET = 1 THEN 4
    ELSE IF /\ pathway.CT = 1 /\ pathway.CT_Setting = "Neoadjuvant" /\ pathway.RT = 1
            /\ pathway.TT = 0 /\ pathway.ET = 1 THEN 5
    ELSE IF /\ pathway.CT = 1 /\ pathway.CT_Setting = "Neoadjuvant" /\ pathway.RT = 1
            /\ pathway.TT = 0 /\ pathway.ET = 0 THEN 6
    ELSE IF /\ pathway.CT = 1 /\ pathway.CT_Setting = "Neoadjuvant" /\ pathway.RT = 1
            /\ pathway.TT = 1 /\ pathway.TT_Setting = "Neoadjuvant" /\ pathway.ET = 1 THEN 7
    ELSE IF /\ pathway.CT = 1 /\ pathway.CT_Setting = "Adjuvant" /\ pathway.RT = 1
            /\ pathway.TT = 1 /\ pathway.TT_Setting = "Adjuvant" /\ pathway.ET = 1 THEN 8
    ELSE IF /\ pathway.CT = 1 /\ pathway.CT_Setting = "Adjuvant" /\ pathway.RT = 1
            /\ pathway.TT = 0 /\ pathway.ET = 0 THEN 9
    ELSE 0

\* def_pathway on a group whose rows carry the same flags and settings (the
\* rows of one patient in df_char differ at most by the age record), so
\* that `.all()` over the group is the test on one row
def_pathway(pathway) ==
    IF pathway.CT = 0 /\ pathway.RT = 0 /\ pathway.TT = 0 /\ pathway.ET = 0 THEN 1
    ELSE IF pathway.CT = 0 /\ pathway.RT = 0 /\ pathway.TT = 0 /\ pathway.ET = 1 THEN 2
    ELSE IF pathway.CT = 0 /\ pathway.RT = 1 /\ pathway.TT = 0 /\ pathway.ET = 0 THEN 3
    ELSE IF pathway.CT = 0 /\ pathway.RT = 1 /\ pathway.TT = 0 /\ pathway.ET = 1 THEN 4
    ELSE IF /\ pathway.CT = 1 /\ pathway.CT_Setting = "Neoadjuvant" /\ pathway.RT = 1
            /\ pathway.TT = 0 /\ pathway.ET = 1 THEN 5
    ELSE IF /\ pathway.CT = 1 /\ pathway.CT_Setting = "Neoadjuvant" /\ pathway.RT = 1
            /\ pathway.TT = 0 /\ pathway.ET = 0 THEN 6
    ELSE IF /\ pathway.CT = 1 /\ pathway.CT_Setting = "Neoadjuvant" /\ pathway.RT = 1
            /\ pathway.TT = 1 /\ pathway.TT_Setting = "Neoadjuvant" /\ pathway.ET = 1 THEN 7
    ELSE IF /\ pathway.CT = 1 /\ pathway.CT_Setting = "Adjuvant" /\ pathway.RT = 1
            /\ pathway.TT = 1 /\ pathway.TT_Setting = "Adjuvant" /\ pathway.ET = 1 THEN 8
    ELSE IF /\ pathway.CT = 1 /\ pathway.CT_Setting = "Adjuvant" /\ pathway.RT = 1
            /\ pathway.TT = 0 /\ pathway.ET = 0 THEN 9
    ELSE IF /\ pathway.CT = 1 /\ pathway.CT_Setting = "Adjuvant" /\ pathway.RT = 1
            /\ pathway.TT = 0 /\ pathway.ET = 1 THEN 10
    ELSE 0

\* the rule predicates with the ET test of rule 10 left out
pathway_rule_overlap(n, pathway) ==
    CASE n = 1 -> pathway.CT = 0 /\ pathway.RT = 0 /\ pathway.TT = 0 /\ pathway.ET = 0
      [] n = 2 -> pathway.CT = 0 /\ pathway.RT = 0 /\ pathway.TT = 0 /\ pathway.ET = 1
      [] n = 3 -> pathway.CT = 0 /\ pathway.RT = 1 /\ pathway.TT = 0 /\ pathway.ET = 0
      [] n = 4 -> pathway.CT = 0 /\ pathway.RT = 1 /\ pathway.TT = 0 /\ pathway.ET = 1
      [] n = 5 -> /\ pathway.CT = 1 /\ pathway.CT_Setting = "Neoadjuvant" /\ pathway.RT = 1
                  /\ pathway.TT = 0 /\ pathway.ET = 1
      [] n = 6 -> /\ pathway.CT = 1 /\ pathway.CT_Setting = "Neoadjuvant" /\ pathway.RT = 1
                  /\ pathway.TT = 0 /\ pathway.ET = 0
      [] n = 7 -> /\ pathway.CT = 1 /\ pathway.CT_Setting = "Neoadjuvant" /\ pathway.RT = 1
                  /\ pathway.TT = 1 /\ pathway.TT_Setting = "Neoadjuvant" /\ pathway.ET = 1
      [] n = 8 -> /\ pathway.CT = 1 /\ pathway.CT_Setting = "Adjuvant" /\ pathway.RT = 1
                  /\ pathway.TT = 1 /\ pathway.TT_Setting = "Adjuvant" /\ pathway.ET = 1
      [] n = 9 -> /\ pathway.CT = 1 /\ pathway.CT_Setting = "Adjuvant" /\ pathway.RT = 1
                  /\ pathway.TT = 0 /\ pathway.ET = 0
      [] n = 10 -> /\ pathway.CT = 1 /\ pathway.CT_Setting = "Adjuvant" /\ pathway.RT = 1
                   /\ pathway.TT = 0

\* the condition of the n-th `if` of def_pathway, n in 1..10
pathway_rule(n, pathway) ==
    CASE n = 1 -> pathway.CT = 0 /\ pathway.RT = 0 /\ pathway.TT = 0 /\ pathway.ET = 0
      [] n = 2 -> pathway.CT = 0 /\ pathway.RT = 0 /\ pathway.TT = 0 /\ pathway.ET = 1
      [] n = 3 -> pathway.CT = 0 /\ pathway.RT = 1 /\ pathway.TT = 0 /\ pathway.ET = 0
      [] n = 4 -> pathway.CT = 0 /\ pathway.RT = 1 /\ pathway.TT = 0 /\ pathway.ET = 1
      [] n = 5 -> /\ pathway.CT = 1 /\ pathway.CT_Setting = "Neoadjuvant" /\ pathway.RT = 1
                  /\ pathway.TT = 0 /\ pathway.ET = 1
      [] n = 6 -> /\ pathway.CT = 1 /\ pathway.CT_Setting = "Neoadjuvant" /\ pathway.RT = 1
                  /\ pathway.TT = 0 /\ pathway.ET = 0
      [] n = 7 -> /\ pathway.CT = 1 /\ pathway.CT_Setting = "Neoadjuvant" /\ pathway.RT = 1
                  /\ pathway.TT = 1 /\ pathway.TT_Setting = "Neoadjuvant" /\ pathway.ET = 1
      [] n = 8 -> /\ pathway.CT = 1 /\ pathway.CT_Setting = "Adjuvant" /\ pathway.RT = 1
                  /\ pathway.TT = 1 /\ pathway.TT_Setting = "Adjuvant" /\ pathway.ET = 1
      [] n = 9 -> /\ pathway.CT = 1 /\ pathway.CT_Setting = "Adjuvant" /\ pathway.RT = 1
                  /\ pathway.TT = 0 /\ pathway.ET = 0
      [] n = 10 -> /\ pathway.CT = 1 /\ pathway.CT_Setting = "Adjuvant" /\ pathway.RT = 1
                   /\ pathway.TT = 0 /\ pathway.ET = 1

\* def_BC_type with the TNBC test made first and its ET test left out
def_BC_type_ct_first(pathway) ==
    IF pathway.CT = 1 /\ pathway.TT = 0 THEN "TNBC"
    ELSE IF pathway.TT = 1 THEN "HER2"
    ELSE IF pathway.ET = 1 /\ pathway.TT = 0 THEN "Luminal"
    ELSE "Unknown"

\* def_BC_type with the HER2 and Luminal tests exchanged
def_BC_type_swapped(pathway) ==
    IF pathway.ET = 1 THEN "Luminal"
    ELSE IF pathway.TT = 1 THEN "HER2"
    ELSE IF pathway.CT = 1 /\ pathway.ET = 0 /\ pathway.TT = 0 THEN "TNBC"
    ELSE "Unknown"

\* def_BC_type on such a group
def_BC_type(pathway) ==
    IF pathway.TT = 1 THEN "HER2"
    ELSE IF pathway.ET = 1 /\ pathway.TT = 0 THEN "Luminal"
    ELSE IF pathway.CT = 1 /\ pathway.ET = 0 /\ pathway.TT = 0 THEN "TNBC"
    ELSE "Unknown"

Flags == {0, 1}
Settings == {"No", "Neoadjuvant", "Adjuvant"}

\* the flags and settings of one patient of df_char
CharRows ==
    [CT : Flags, CT_Setting : Settings, RT : Flags,
     TT : Flags, TT_Setting : Settings, ET : Flags]

InitChar ==
    /\ cohort = <<>> /\ store = {} /\ dict_treatment = <<>>
    /\ print_opt = FALSE
    /\ ValidArgs
    /\ Idle
    /\ patient_group \in CharRows
    /\ Regimen = <<>>
    /\ pc = "df_char"

\* therapeutic_pathway(df_char), before or after BC_subtype(df_char)
TP_Apply ==
    /\ pc \in {"df_char", "BC_subtype returned"}
    /\ Pathway' = def_pathway(patient_group)
    /\ pc' = IF pc = "df_char" THEN "therapeutic_pathway returned" ELSE "returned"
    /\ UNCHANGED <<args, twiceVars, statVars, queried, diagVars, settingVars, regimenVars, etVars, ruleVars, BC_SubType>>

\* BC_subtype(df_char), before or after therapeutic_pathway(df_char)
ST_Apply ==
    /\ pc \in {"df_char", "therapeutic_pathway returned"}
    /\ BC_SubType' = def_BC_type(patient_group)
    /\ pc' = IF pc = "df_char" THEN "BC_subtype returned" ELSE "returned"
    /\ UNCHANGED <<args, twiceVars, statVars, queried, diagVars, settingVars, regimenVars, etVars, ruleVars, Pathway>>

NextChar == TP_Apply \/ ST_Apply

SpecChar == InitChar /\ [][NextChar]_vars

----------------------------------------------------------------------------
(* Claims on therapeutic_pathway and BC_subtype *)

HasPathway == pc \in {"therapeutic_pathway returned", "returned"}
HasSubType == pc \in {"BC_subtype returned", "returned"}

\* the treatments of the row
With(ct, rt, tt, et) ==
    /\ patient_group.CT = ct /\ patient_group.RT = rt
    /\ patient_group.TT = tt /\ patient_group.ET = et

CTIs(s) == patient_group.CT_Setting = s
TTIs(s) == patient_group.TT_Setting = s

\* the pathway of the decision table, 0 when no line applies
TablePathway ==
    CASE With(0, 0, 0, 0) -> 1
      [] With(0, 0, 0, 1) -> 2
      [] With(0, 1, 0, 0) -> 3
      [] With(0, 1, 0, 1) -> 4
      [] With(1, 1, 0, 1) /\ CTIs("Neoadjuvant") -> 5
      [] With(1, 1, 0, 0) /\ CTIs("Neoadjuvant") -> 6
      [] With(1, 1, 1, 1) /\ CTIs("Neoadjuvant") /\ TTIs("Neoadjuvant") -> 7
      [] With(1, 1, 1, 1) /\ CTIs("Adjuvant") /\ TTIs("Adjuvant") -> 8
      [] With(1, 1, 0, 0) /\ CTIs("Adjuvant") -> 9
      [] With(1, 1, 0, 1) /\ CTIs("Adjuvant") -> 10
      [] OTHER -> 0

C16_SubtypeTable ==
    /\ HasSubType =>
          /\ BC_SubType = (IF patient_group.TT = 1 THEN "HER2"
                           ELSE IF patient_group.ET = 1 THEN "Luminal"
                           ELSE IF patient_group.CT = 1 THEN "TNBC"
                           ELSE "Unknown")
          /\ (BC_SubType = "Unknown") =
                (patient_group.CT = 0 /\ patient_group.ET = 0 /\ patient_group.TT = 0)
    /\ (pc = "returned" /\ With(0, 0, 0, 0)) =>
          (Pathway = 1 /\ BC_SubType = "Unknown")

\* a patient with targeted and endocrine therapy has been given 'HER2'
C16_Witness ==
    /\ pc = "returned"
    /\ patient_group.TT = 1 /\ patient_group.ET = 1
    /\ BC_SubType = "HER2"

\* the rules of def_pathway whose condition the row meets
MatchingRules == {n \in 1..10 : pathway_rule(n, patient_group)}

\* C27: the ten rule conditions of def_pathway are pairwise exclusive: a
\* characterization row meets at most one of them, and the pathway returned
\* is the number of the rule it meets whatever the order of the tests (0
\* when it meets none).
C27_RulesExclusive ==
    HasPathway =>
        /\ Cardinality(MatchingRules) <= 1
        /\ \A n \in MatchingRules : Pathway = n
        /\ MatchingRules = {} => Pathway = 0

\* a row meeting rule 9 (adjuvant chemotherapy and radiotherapy only) has
\* been given pathway 9
C27_Witness ==
    /\ HasPathway
    /\ MatchingRules = {9}
    /\ Pathway = 9

\* C28: the pathway and the subtype of one row agree: pathway 7 or 8 goes
\* with 'HER2', pathway 2, 4, 5 or 10 with 'Luminal', pathway 6 or 9 with
\* 'TNBC', pathway 1 or 3 with 'Unknown'.
C28_PathwaySubtype ==
    pc = "returned" =>
        /\ Pathway \in {7, 8} => BC_SubType = "HER2"
        /\ Pathway \in {2, 4, 5, 10} => BC_SubType = "Luminal"
        /\ Pathway \in {6, 9} => BC_SubType = "TNBC"
        /\ Pathway \in {1, 3} => BC_SubType = "Unknown"

\* a row of pathway 5 has been given 'Luminal'
C28_Witness ==
    /\ pc = "returned"
    /\ Pathway = 5
    /\ BC_SubType = "Luminal"

----------------------------------------------------------------------------
(* SNDS_Treatment.Had_Treatment called with a cohort *)

MaxHadRows == 2      \* record-store rows in a Had_Treatment run

H1 == Ordinal(2020, 5, 5)

\* an act in both sources and an act of another code, a diagnosis, a drug
\* by its UCD in both sources and by its CIP13, and an act out of the range
HadEvents ==
    {<<"DCIR", "CCAM", "ACT_A", H1>>, <<"PMSI", "CCAM", "ACT_A", H1>>,
     <<"DCIR", "CCAM", "ACT_B", H1>>, <<"PMSI", "ICD10", "C50", H1>>,
     <<"PMSI", "UCD", "UCD_X", H1>>, <<"DCIR", "UCD", "UCD_X", H1>>,
     <<"DCIR", "CIP13", "CIP_X", H1>>, <<"DCIR", "CCAM", "ACT_A", D0>>}

HadRows == {Row(k, e[1], e[2], e[3], e[4]) : k \in KeyUniverse, e \in HadEvents}

\* the dict_code arguments of the model: one per code type, two types, and
\* a code type with an empty list
DictCodes ==
    {CodeSet("CCAM", {"ACT_A"}), CodeSet("ICD10", {"C50"}), CodeSet("UCD", {"UCD_X"}),
     CodeSet("CIP13", {"CIP_X"}), CodeSet("ATC", {"ATC_X"}),
     CodeSet("ICD10", {"C50"}) \o CodeSet("CIP13", {"CIP_X"}),
     CodeSet("CCAM", {})}

InitHad ==
    /\ cohort \in Cohorts
    /\ store \in {JoinBen(S) : S \in KSubsets(HadRows, MaxHadRows)}
    /\ dict_treatment \in DictCodes
    /\ print_opt \in BOOLEAN
    /\ ValidArgs
    /\ pc = "Had_Treatment"
    /\ Idle
    /\ NoRule

HT_Return ==
    /\ pc = "Had_Treatment"
    /\ LET r == Had_Treatment(store, dict_treatment, cohort, print_opt)
       IN  IF r.ok
           THEN df_Treatment' = r.df /\ pc' = "returned"
           ELSE pc' = "raised" /\ UNCHANGED df_Treatment
    /\ UNCHANGED <<args, twiceVars, statVars, queried, diagVars, surgery_date, treatment_date, df_treatment_setting,
                   regimenVars, etVars, ruleVars, charVars>>

NextHad == HT_Return

SpecHad == InitHad /\ [][NextHad]_vars

----------------------------------------------------------------------------
(* Claims on Had_Treatment *)

\* the codes listed for a code type in the code set
CodesOf(t) ==
    UNION {dict_treatment[i].codes :
              i \in {j \in 1..Len(dict_treatment) : dict_treatment[j].type = t}}

Present(t) == \E i \in 1..Len(dict_treatment) : dict_treatment[i].type = t

\* the events returned for the code types present, each type looked up in
\* all of its source tables
EventsReturned ==
    LET p == Range(cohort)
    IN  (IF Present("CCAM")
         THEN loc_ccam_dcir(store, p, CodesOf("CCAM")) \cup loc_ccam_pmsi(store, p, CodesOf("CCAM"))
         ELSE {})
        \cup (IF Present("ICD10") THEN loc_icd10_pmsi(store, p, CodesOf("ICD10")) ELSE {})
        \cup (IF Present("UCD")
              THEN loc_ucd_pmsi(store, p, CodesOf("UCD")) \cup loc_ucd_dcir(store, p, CodesOf("UCD"))
              ELSE {})
        \cup (IF Present("CIP13") THEN loc_cip_dcir(store, p, CodesOf("CIP13")) ELSE {})
        \cup (IF Present("ATC")
              THEN loc_atc_pmsi(store, p, CodesOf("ATC")) \cup loc_atc_dcir(store, p, CodesOf("ATC"))
              ELSE {})

\* the table has one row per cohort patient, with Response 1 exactly for the
\* keys of the events returned
PresenceTable ==
    /\ Len(df_Treatment) = Len(cohort)
    /\ \A i \in 1..Len(cohort) :
          /\ df_Treatment[i].key = cohort[i]
          /\ df_Treatment[i].Response =
                (IF cohort[i] \in {r.key : r \in EventsReturned} THEN 1 ELSE 0)

\* C17: Had_Treatment with a cohort returns a table with exactly one row per
\* cohort patient, where Response is 1 if and only if the patient key occurs
\* in the union of the events returned for the code types present in the
\* code set, each looked up in all of its source tables, and 0 otherwise.
\* (The table of every call that returns is this table; the call with
\* print_option does not return when no cohort patient responds.)
C17_Presence ==
    pc \in {"returned", "raised"} => (pc = "returned" /\ PresenceTable)

\* the event carries a code listed in the item: the code itself, or for an
\* ATC class a drug identifier of the class
Listed(r, item) ==
    IF item.type = "ATC"
    THEN \E p \in IR_PHA_R :
            /\ p.PHA_ATC_CLA \in item.codes
            /\ \/ r.type = "UCD" /\ r.code = p.PHA_CIP_UCD
               \/ r.type = "CIP13" /\ r.code = p.PHA_CIP_C13
    ELSE r.type = item.type /\ r.code \in item.codes

\* the patient has an event in the date range with a code listed in the
\* code set
HasListedEvent(k) ==
    \E r \in store : \E i \in 1..Len(dict_treatment) :
        r.key = k /\ InRange(r.date) /\ Listed(r, dict_treatment[i])

\* C26: the events retrieved for a code type are events whose code is in
\* the list given for that type: in the table Had_Treatment returns, a
\* patient has Response 1 only with an event whose code is listed, and a
\* code set whose list is empty gives Response 0 to every patient.
C26_CodeRestriction ==
    pc = "returned" =>
        \A i \in 1..Len(df_Treatment) :
            df_Treatment[i].Response = 1 => HasListedEvent(df_Treatment[i].key)

\* the same for the code sets with no empty list
C26_ListedCodes ==
    (pc = "returned" /\ \A i \in 1..Len(dict_treatment) : dict_treatment[i].codes # {}) =>
        \A i \in 1..Len(df_Treatment) :
            df_Treatment[i].Response = 1 => HasListedEvent(df_Treatment[i].key)

----------------------------------------------------------------------------
(* The argument checks of SNDS_BC.__init__, Had_Treatment, treatment_dates, *)
(* first_date_treatment and treatment_setting                               *)

MaxCallRows == 2     \* record-store rows in a run with unchecked arguments

CallEvents == {<<"DCIR", "CCAM", "ACT_A", H1>>, <<"DCIR", "CCAM", "SURGERY", H1>>}

CallRows == {Row(k, e[1], e[2], e[3], e[4]) : k \in KeyUniverse, e \in CallEvents}

\* the column sets of the cohort table given: the identity columns, one of
\* them missing, and one more column
ColumnSets == {KeyColumns, KeyColumns \ {"BEN_RNG_GEM"}, KeyColumns \cup {"AGE"}}

\* `years` given as a list, as None and as a tuple
YearsArgs == {"list", "None", "tuple"}

Methods ==
    {"__init__", "Had_Treatment", "treatment_dates", "first_date_treatment",
     "treatment_setting"}

\* set(df_ID_PATIENT.columns) != {"BEN_IDT_ANO", "BEN_NIR_PSA", "BEN_RNG_GEM"}
bad_columns == columns # KeyColumns

\* (years is None) or (not isinstance(years, list))
bad_years == years_arg = "None" \/ years_arg # "list"

\* type(dict_code) != dict
bad_dict == dict_type # "dict"

\* the `for key in dict_code` loop reaches a query
loop_queries(dict_code) ==
    \E i \in 1..Len(dict_code) :
        dict_code[i].type \in {"CCAM", "ICD10", "UCD", "CIP13", "ATC"}

\* treatment_setting is a method of a constructed SNDS_BC, whose cohort has
\* passed __init__; __init__ takes no `years` and no code set; a code set
\* that is not a dict is a list of codes
InitCall ==
    /\ method \in Methods
    /\ columns \in (IF method = "treatment_setting" THEN {KeyColumns} ELSE ColumnSets)
    /\ years_arg \in (IF method = "__init__" THEN {"list"} ELSE YearsArgs)
    /\ dict_type \in (IF method = "__init__" THEN {"dict"} ELSE {"dict", "list"})
    /\ dict_treatment \in
          (IF method = "__init__" \/ dict_type = "list" THEN {<<>>}
           ELSE {<<>>, CodeSet("CCAM", {"ACT_A"})})
    /\ print_opt \in (IF method = "Had_Treatment" THEN BOOLEAN ELSE {FALSE})
    /\ cohort \in Cohorts
    /\ store \in {JoinBen(S) : S \in KSubsets(CallRows, MaxCallRows)}
    /\ queried = FALSE
    /\ pc = "call"
    /\ Idle
    /\ NoRule

\* what every call of this run leaves alone
CallFrame ==
    UNCHANGED <<args, twiceVars, statVars, diagVars, surgery_date, treatment_date, regimenVars, etVars,
                ruleVars, charVars>>

Call_init ==
    /\ pc = "call" /\ method = "__init__"
    /\ pc' = IF bad_columns THEN "validation error" ELSE "returned"
    /\ UNCHANGED <<queried, df_Treatment, df_treatment_setting>>
    /\ CallFrame

Call_Had_Treatment ==
    /\ pc = "call" /\ method = "Had_Treatment"
    /\ IF bad_columns \/ bad_years \/ bad_dict
       THEN pc' = "validation error" /\ UNCHANGED <<queried, df_Treatment>>
       ELSE LET r == Had_Treatment(store, dict_treatment, cohort, print_opt)
            IN  /\ queried' = loop_queries(dict_treatment)
                /\ IF r.ok THEN df_Treatment' = r.df /\ pc' = "returned"
                   ELSE pc' = "raised" /\ UNCHANGED df_Treatment
    /\ UNCHANGED df_treatment_setting
    /\ CallFrame

Call_treatment_dates ==
    /\ pc = "call" /\ method = "treatment_dates"
    /\ IF bad_columns \/ bad_years \/ bad_dict
       THEN pc' = "validation error" /\ UNCHANGED queried
       ELSE /\ queried' = loop_queries(dict_treatment)
            /\ pc' = IF treatment_dates(store, dict_treatment, Range(cohort)).ok
                     THEN "returned" ELSE "raised"
    /\ UNCHANGED <<df_Treatment, df_treatment_setting>>
    /\ CallFrame

Call_first_date_treatment ==
    /\ pc = "call" /\ method = "first_date_treatment"
    /\ IF bad_dict \/ bad_columns \/ bad_years
       THEN pc' = "validation error" /\ UNCHANGED queried
       ELSE /\ queried' = loop_queries(dict_treatment)
            /\ pc' = IF first_date_treatment(store, dict_treatment, Range(cohort)).ok
                     THEN "returned" ELSE "raised"
    /\ UNCHANGED <<df_Treatment, df_treatment_setting>>
    /\ CallFrame

\* treatment_setting checks the code set, then first_date_treatment checks
\* `years` before the surgery query
Call_treatment_setting ==
    /\ pc = "call" /\ method = "treatment_setting"
    /\ IF bad_dict \/ bad_years
       THEN pc' = "validation error" /\ UNCHANGED <<queried, df_treatment_setting>>
       ELSE LET s == first_date_treatment(store, Surgery, Range(cohort))
                t == first_date_treatment(store, dict_treatment, Range(cohort))
            IN  /\ queried' = TRUE
                /\ IF s.ok /\ t.ok
                   THEN /\ df_treatment_setting' = setting_table(cohort, merged(t.df, s.df))
                        /\ pc' = "returned"
                   ELSE pc' = "raised" /\ UNCHANGED df_treatment_setting
    /\ UNCHANGED df_Treatment
    /\ CallFrame

NextCall ==
    \/ Call_init
    \/ Call_Had_Treatment
    \/ Call_treatment_dates
    \/ Call_first_date_treatment
    \/ Call_treatment_setting

SpecCall == InitCall /\ [][NextCall]_vars

----------------------------------------------------------------------------
(* Claims on the argument checks *)

Finished == pc \in {"returned", "raised", "validation error"}

\* C19: Had_Treatment, treatment_dates, first_date_treatment and
\* treatment_setting end with a validation error, and return no table, when
\* the code set is empty or is not a dict.
C19_InvalidCodeSet ==
    (Finished /\ method # "__init__" /\ (dict_type # "dict" \/ dict_treatment = <<>>))
        => pc = "validation error"

\* C20: a call whose cohort lacks an identity column, or whose `years` is
\* None or not a list, ends with a validation error before any query is
\* sent to the record store; and SNDS_BC construction accepts every cohort
\* that has the three identity columns, with or without other columns.
C20_ValidateBeforeRead ==
    Finished =>
        /\ (~(KeyColumns \subseteq columns) \/ years_arg # "list") =>
              (pc = "validation error" /\ ~queried)
        /\ (method = "__init__" /\ KeyColumns \subseteq columns) => pc = "returned"

----------------------------------------------------------------------------
(* SNDS_BC.Date_Diag, treatment_setting and EndoctrineTherapy_Treatment as   *)
(* whole calls, SNDS_BC.Age_Diagnosis and SNDS_BC.BC_POP_Stat                *)

MaxAgeRows == 2      \* age records in a BC_POP_Stat run

Raised == [ok |-> FALSE, df |-> <<>>]

\* the value of a one-element set; the intermediate tables below are bound
\* variables, so that each of them is computed once
Only(S) == CHOOSE x \in S : TRUE

\* Date_Diag: the stages in sequence
Date_Diag(db, df_ID_PATIENT) ==
    Only({IF ~first.ok THEN Raised
          ELSE Only({Only({Only({
                   IF imagery_raises(db, d2, first.df) THEN Raised
                   ELSE Only({[ok |-> TRUE, df |-> fallback_stage(d3, first.df)] :
                                 d3 \in {imagery_stage(db, d2, first.df)}}) :
                   d2 \in {cytology_stage(db, d1, first.df)}}) :
                   d1 \in {biopsy_stage(db, d0, first.df)}}) :
                   d0 \in {init_dates_diag(df_ID_PATIENT)}}) :
          first \in {first_date_treatment(db, All_BC_Codes, Range(df_ID_PATIENT))}})

\* treatment_setting of a code set
treatment_setting(db, dict_code, df_ID_PATIENT) ==
    Only({IF s.ok /\ t.ok
          THEN [ok |-> TRUE, df |-> setting_table(df_ID_PATIENT, merged(t.df, s.df))]
          ELSE Raised :
          s \in {first_date_treatment(db, Surgery, Range(df_ID_PATIENT))},
          t \in {first_date_treatment(db, dict_code, Range(df_ID_PATIENT))}})

\* EndoctrineTherapy_Treatment
EndoctrineTherapy_Treatment(db, df_ID_PATIENT) ==
    Only({IF ~dates.ok THEN Raised
          ELSE Only({IF ET_apply_raises(table) THEN Raised
                     ELSE [ok |-> TRUE,
                           df |-> fill_ET_Treatment(merge_outer(label_NoET(endo), table))] :
                     table \in {ET_Regimen_table(cip_rows(dates.rows))}}) :
          endo \in {Had_Treatment(db, ET_All, df_ID_PATIENT, FALSE).df},
          dates \in {treatment_dates(db, ET_All, Range(df_ID_PATIENT))}})

\* Get_AGE: the age records (EXE_SOI_DTD, AGE) of the DCIR and of the PMSI
\* for the BEN_IDT_ANO and the BEN_NIR_PSA of the cohort, de-duplicated
Get_AGE(db, patients) ==
    {[key |-> r.key, EXE_SOI_DTD |-> r.date, AGE |-> r.code] :
        r \in {x \in db : /\ x.type = "AGE"
                          /\ x.key.BEN_IDT_ANO \in {k.BEN_IDT_ANO : k \in patients}
                          /\ x.key.BEN_NIR_PSA \in {k.BEN_NIR_PSA : k \in patients}}}

RECURSIVE SortedAges(_)
\* the rows of a table of (key, AGE, ...) in key and age order
SortedAges(S) ==
    IF S = {} THEN <<>>
    ELSE LET r == CHOOSE x \in S : \A y \in S \ {x} :
                      KeyLT(x.key, y.key) \/ (x.key = y.key /\ x.AGE <= y.AGE)
         IN  <<r>> \o SortedAges(S \ {r})

\* Age_Diagnosis: df_age_diag.merge(df_date_diag, how='left'), then only the
\* rows with EXE_SOI_DTD == Date_Diag
Age_Diagnosis(db, df_ID_PATIENT) ==
    Only({IF ~df_date_diag.ok THEN Raised
          ELSE [ok |-> TRUE,
                df |-> SortedAges(
                    {[key |-> a.key, AGE |-> a.AGE, Date_Diag |-> a.EXE_SOI_DTD] :
                        a \in {x \in df_age_diag :
                                  \E i \in 1..Len(df_date_diag.df) :
                                      /\ df_date_diag.df[i].key = x.key
                                      /\ df_date_diag.df[i].Date_Diag = x.EXE_SOI_DTD}})] :
          df_date_diag \in {Date_Diag(db, df_ID_PATIENT)},
          df_age_diag \in {Get_AGE(db, Range(df_ID_PATIENT))}})

\* Had_Treatment(...).rename(columns={'Response': flag}) for the merges
Nodal_Status(t) == [i \in 1..Len(t) |-> [key |-> t[i].key, Nodal_Status |-> t[i].Response]]
Mastectomy_flag(t) == [i \in 1..Len(t) |-> [key |-> t[i].key, Mastectomy |-> t[i].Response]]
Partial_flag(t) ==
    [i \in 1..Len(t) |-> [key |-> t[i].key, Partial_Mastectomy |-> t[i].Response]]
CT_flag(t) == [i \in 1..Len(t) |-> [key |-> t[i].key, CT |-> t[i].Response]]
RT_flag(t) == [i \in 1..Len(t) |-> [key |-> t[i].key, RT |-> t[i].Response]]
TT_flag(t) == [i \in 1..Len(t) |-> [key |-> t[i].key, TT |-> t[i].Response]]
ET_flag(t) == [i \in 1..Len(t) |-> [key |-> t[i].key, ET |-> t[i].Response]]

\* the [keys, 'Setting'] columns renamed, and the [keys, 'CT_Regimen'] columns
CT_Setting(t) == [i \in 1..Len(t) |-> [key |-> t[i].key, CT_Setting |-> t[i].Setting]]
RT_Setting(t) == [i \in 1..Len(t) |-> [key |-> t[i].key, RT_Setting |-> t[i].Setting]]
TT_Setting(t) == [i \in 1..Len(t) |-> [key |-> t[i].key, TT_Setting |-> t[i].Setting]]
ET_Setting(t) == [i \in 1..Len(t) |-> [key |-> t[i].key, ET_Setting |-> t[i].Setting]]
CT_Regimen(t) == [i \in 1..Len(t) |-> [key |-> t[i].key, CT_Regimen |-> t[i].CT_Regimen]]

\* the nodal status and surgery columns, and the chemotherapy flag
presence_columns(db, df_ID_PATIENT, df) ==
    Only({Only({Only({Only({
        MergeLeft([i \in 1..Len(m3) |->
                      m3[i] @@ [Surgery |-> IF m3[i].Mastectomy = 1 \/ m3[i].Partial_Mastectomy = 1
                                            THEN 1 ELSE 0]],
                  ct, [CT |-> NA]) :
        m3 \in {MergeLeft(m2, partial, [Partial_Mastectomy |-> NA])}}) :
        m2 \in {MergeLeft(m1, mastectomy, [Mastectomy |-> NA])}}) :
        m1 \in {MergeLeft(df, nodal, [Nodal_Status |-> NA])}}) :
        nodal \in {Nodal_Status(Had_Treatment(db, Diag_NodalStatus, df_ID_PATIENT, FALSE).df)},
        mastectomy \in {Mastectomy_flag(Had_Treatment(db, Mastectomy, df_ID_PATIENT, FALSE).df)},
        partial \in {Partial_flag(Had_Treatment(db, Partial_Mastectomy, df_ID_PATIENT, FALSE).df)},
        ct \in {CT_flag(Had_Treatment(db, CT, df_ID_PATIENT, FALSE).df)}})

\* ET_Regimen = np.select(...) over ET_Treatment
ET_Regimen_of(label) ==
    IF label \in {"AI", "Tamoxifen"} THEN "Unitherapy"
    ELSE IF label \in {"AI followed by Tamoxifen", "AI with Agonist",
                       "Tamoxifen followed by AI", "Tamoxifen with Agonist"} THEN "Bitherapy"
    ELSE IF label = "No ET" THEN "No ET"
    ELSE NA

F1 == Ordinal(2020, 2, 3)
F2 == Ordinal(2020, 6, 1)
F3 == Ordinal(2020, 7, 1)

\* the care of a patient with every treatment: two chemotherapy sessions a
\* week apart, then surgery, then radiotherapy, targeted and endocrine therapy
FullCare(k) ==
    {Row(k, "DCIR", "CCAM", "CHEMO", F1), Row(k, "DCIR", "CCAM", "CHEMO", F1 + 7),
     Row(k, "DCIR", "CCAM", "SURGERY", F2), Row(k, "DCIR", "CCAM", "RADIO", F3),
     Row(k, "DCIR", "UCD", "PERTUZUMAB", F3), Row(k, "DCIR", "CIP13", "TAM1", F3)}

\* age records: on the day of the first treatment in the DCIR and, with the
\* age of the hospital stay, in the PMSI; and on another day
AgeEvents == {<<"DCIR", 50, F1>>, <<"PMSI", 51, F1>>, <<"DCIR", 50, F2>>}

AgeRows == {Row(k, e[1], "AGE", e[2], e[3]) : k \in KeyUniverse, e \in AgeEvents}

\* the patients with full care in the store
CareSets == {{}, {Key(2, 2, 1)}, {Key(1, 1, 1), Key(2, 2, 1)}}

InitStat ==
    /\ cohort \in Cohorts
    /\ store \in {JoinBen(UNION {FullCare(k) : k \in C} \cup S) :
                      C \in CareSets, S \in KSubsets(AgeRows, MaxAgeRows)}
    /\ dict_treatment = <<>>
    /\ pc = "BC_POP_Stat"
    /\ print_opt = FALSE
    /\ ValidArgs
    /\ Idle
    /\ NoRule

StatFrame ==
    UNCHANGED <<args, twiceVars, queried, diagVars, settingVars, regimenVars, etVars, ruleVars, charVars>>

\* df = self.Age_Diagnosis(...)
BP_Age ==
    /\ pc = "BC_POP_Stat"
    /\ \E r \in {Age_Diagnosis(store, cohort)} :
           IF r.ok THEN df_char' = r.df /\ pc' = "presence"
           ELSE pc' = "raised" /\ UNCHANGED df_char
    /\ StatFrame

\* nodal status, mastectomy, partial mastectomy, surgery, chemotherapy flag
BP_Presence ==
    /\ pc = "presence"
    /\ df_char' = presence_columns(store, cohort, df_char)
    /\ pc' = "CT"
    /\ StatFrame

\* chemotherapy setting and regimen
BP_CT ==
    /\ pc = "CT"
    /\ \E s \in {treatment_setting(store, CT, cohort)},
          r \in {Chemotherapy_Regimen(store, cohort)} :
           IF s.ok /\ r.ok
           THEN /\ df_char' = MergeLeft(MergeLeft(df_char, CT_Setting(s.df), [CT_Setting |-> NA]),
                                        CT_Regimen(r.df), [CT_Regimen |-> NA])
                /\ pc' = "RT"
           ELSE pc' = "raised" /\ UNCHANGED df_char
    /\ StatFrame

\* radiotherapy flag and setting
BP_RT ==
    /\ pc = "RT"
    /\ \E s \in {treatment_setting(store, RT, cohort)} :
           IF s.ok
           THEN /\ df_char' =
                      MergeLeft(MergeLeft(df_char, RT_flag(Had_Treatment(store, RT, cohort, FALSE).df),
                                          [RT |-> NA]),
                                RT_Setting(s.df), [RT_Setting |-> NA])
                /\ pc' = "TT"
           ELSE pc' = "raised" /\ UNCHANGED df_char
    /\ StatFrame

\* targeted therapy flag and setting
BP_TT ==
    /\ pc = "TT"
    /\ \E s \in {treatment_setting(store, Pertuzumab, cohort)} :
           IF s.ok
           THEN /\ df_char' =
                      MergeLeft(MergeLeft(df_char,
                                          TT_flag(Had_Treatment(store, Pertuzumab, cohort, FALSE).df),
                                          [TT |-> NA]),
                                TT_Setting(s.df), [TT_Setting |-> NA])
                /\ pc' = "ET"
           ELSE pc' = "raised" /\ UNCHANGED df_char
    /\ StatFrame

\* endocrine therapy flag, setting, treatment and regimen; return df
BP_ET ==
    /\ pc = "ET"
    /\ \E s \in {treatment_setting(store, ET_All, cohort)},
          t \in {EndoctrineTherapy_Treatment(store, cohort)} :
           IF s.ok /\ t.ok
           THEN /\ \E m \in {MergeLeft(
                                 MergeLeft(
                                     MergeLeft(df_char,
                                               ET_flag(Had_Treatment(store, ET_All, cohort, FALSE).df),
                                               [ET |-> NA]),
                                     ET_Setting(s.df), [ET_Setting |-> NA]),
                                 t.df, [Response |-> NA, ET_Regimen |-> NA,
                                        ET_Treatment |-> NA])} :
                      df_char' = [i \in 1..Len(m) |->
                                     [m[i] EXCEPT !.ET_Regimen = ET_Regimen_of(m[i].ET_Treatment)]]
                /\ pc' = "returned"
           ELSE pc' = "raised" /\ UNCHANGED df_char
    /\ StatFrame

NextStat == BP_Age \/ BP_Presence \/ BP_CT \/ BP_RT \/ BP_TT \/ BP_ET

SpecStat == InitStat /\ [][NextStat]_vars

----------------------------------------------------------------------------
(* Claims on BC_POP_Stat *)

\* the rows of the patient in the characterization table
RowsOf(k) == {i \in 1..Len(df_char) : df_char[i].key = k}

\* C18: the table BC_POP_Stat returns has exactly one row per cohort patient
\* key, whatever the record store holds: a patient without diagnosis-date
\* evidence or without an age record on the diagnosis date has a row, and a
\* patient with several age records on the diagnosis date has one row.
C18_OneRowPerPatient ==
    pc = "returned" =>
        /\ \A k \in Range(cohort) : Cardinality(RowsOf(k)) = 1
        /\ Len(df_char) = Len(cohort)

----------------------------------------------------------------------------
(* Repeated calls on one SNDS_BC object.  The object holds the cohort     *)
(* table self.df_ID_PATIENT (its rows `cohort`, its columns `columns`) and *)
(* the code vocabulary; the record store is behind self.conn.  Each action *)
(* is one whole call; `calls` keeps every call with what it gave.          *)

MaxCalls == 3        \* calls made on the object

\* the columns of the table of the object had Date_Diag taken
\* `df_dates_diag = self.df_ID_PATIENT`: the column is added to it
Date_Diag_alias(cols) == cols \cup {"Date_Diag"}

\* the columns of self.df_ID_PATIENT after Date_Diag: the method takes
\* self.df_ID_PATIENT.copy() and adds Date_Diag to the copy
Date_Diag_copy(cols) == cols

\* the columns of df_ID_PATIENT after Had_Treatment: Response is added to
\* df_ID_PATIENT[[...]].copy()
Had_Treatment_copy(cols) == cols

\* a call that raises the ValueError of the argument checks, one that raises
\* later, and one that returns a table
Outcome(invalid, r) ==
    IF invalid THEN [outcome |-> "validation error", df |-> <<>>]
    ELSE IF ~r.ok THEN [outcome |-> "raised", df |-> <<>>]
    ELSE [outcome |-> "returned", df |-> r.df]

Call(name, o) == [method |-> name, outcome |-> o.outcome, df |-> o.df]

\* the stores of the run: no care, the full care of one and of two patients,
\* and full care with a biopsy ten days before it
TwiceStores ==
    {JoinBen(UNION {FullCare(k) : k \in C}) : C \in CareSets}
        \cup {JoinBen(FullCare(Key(1, 1, 1))
                        \cup {Row(Key(1, 1, 1), "DCIR", "CCAM", "BIOPSY", F1 - 10)})}

\* the rows of df_char given to therapeutic_pathway and to BC_subtype
TwiceRows ==
    {[CT |-> 1, CT_Setting |-> "Neoadjuvant", RT |-> 1,
      TT |-> 0, TT_Setting |-> "No", ET |-> 1],
     [CT |-> 0, CT_Setting |-> "No", RT |-> 0,
      TT |-> 1, TT_Setting |-> "Adjuvant", ET |-> 0]}

InitTwice ==
    /\ cohort \in Cohorts
    /\ store \in TwiceStores
    /\ dict_treatment = CT
    /\ print_opt = FALSE
    /\ ValidArgs
    /\ Idle
    /\ patient_group \in TwiceRows
    /\ Regimen = <<>>
    /\ pc = "SNDS_BC"

\* what no call on the object touches
TwiceFrame ==
    UNCHANGED <<cohort, store, dict_treatment, print_opt, method, years_arg, dict_type,
                pc, queried, diagVars, settingVars, regimenVars, etVars, ruleVars,
                charVars, statVars>>

CanCall == pc = "SNDS_BC" /\ Len(calls) < MaxCalls

Twice_Date_Diag ==
    /\ CanCall
    /\ \E r \in {IF bad_columns THEN Raised ELSE Date_Diag(store, cohort)} :
          calls' = Append(calls, Call("Date_Diag", Outcome(bad_columns, r)))
    /\ columns' = Date_Diag_copy(columns)
    /\ TwiceFrame

Twice_treatment_setting ==
    /\ CanCall
    /\ \E r \in {IF bad_columns THEN Raised
                 ELSE treatment_setting(store, dict_treatment, cohort)} :
          calls' = Append(calls, Call("treatment_setting", Outcome(bad_columns, r)))
    /\ UNCHANGED columns
    /\ TwiceFrame

Twice_Chemotherapy_Regimen ==
    /\ CanCall
    /\ \E r \in {IF bad_columns THEN Raised ELSE Chemotherapy_Regimen(store, cohort)} :
          calls' = Append(calls, Call("Chemotherapy_Regimen", Outcome(bad_columns, r)))
    /\ columns' = Had_Treatment_copy(columns)
    /\ TwiceFrame

Twice_EndoctrineTherapy_Treatment ==
    /\ CanCall
    /\ \E r \in {IF bad_columns THEN Raised
                 ELSE EndoctrineTherapy_Treatment(store, cohort)} :
          calls' = Append(calls,
                          Call("EndoctrineTherapy_Treatment", Outcome(bad_columns, r)))
    /\ columns' = Had_Treatment_copy(columns)
    /\ TwiceFrame

\* therapeutic_pathway(df_char) reads its argument only
Twice_therapeutic_pathway ==
    /\ CanCall
    /\ calls' = Append(calls, [method |-> "therapeutic_pathway", outcome |-> "returned",
                               df |-> <<def_pathway(patient_group)>>])
    /\ UNCHANGED columns
    /\ TwiceFrame

\* BC_subtype(df_char) reads its argument only
Twice_BC_subtype ==
    /\ CanCall
    /\ calls' = Append(calls, [method |-> "BC_subtype", outcome |-> "returned",
                               df |-> <<def_BC_type(patient_group)>>])
    /\ UNCHANGED columns
    /\ TwiceFrame

NextTwice ==
    \/ Twice_Date_Diag
    \/ Twice_treatment_setting
    \/ Twice_Chemotherapy_Regimen
    \/ Twice_EndoctrineTherapy_Treatment
    \/ Twice_therapeutic_pathway
    \/ Twice_BC_subtype

SpecTwice == InitTwice /\ [][NextTwice]_vars

----------------------------------------------------------------------------
(* Claims on repeated calls *)

C21_StateUnchanged ==
    [][cohort' = cohort /\ columns' = columns /\ store' = store]_vars

====
